---- MODULE Spec2Model ----
(***************************************************************************)
(* View-filter evaluation of the web-frontend (database module).           *)
(*                                                                         *)
(* The filter types are exercised by the data-driven tables of the unit    *)
(* test file (src/unnamed/part_000); the evaluators themselves             *)
(* (modules/database/viewFilters.js) are not part of the sources at hand   *)
(* and are modelled from the specification, pinned to the expectations of  *)
(* the test tables wherever a table decides the behaviour.                 *)
(*                                                                         *)
(* Time: an instant is a whole number of hours since 1970-01-01T00:00Z     *)
(* (the zones used have whole-hour offsets, so truncating the minutes of   *)
(* a timestamp never moves it across a day boundary of any zone).  A civil *)
(* day is a whole number of days since 1970-01-01.                         *)
(***************************************************************************)
EXTENDS Integers, Sequences, FiniteSets, TLC

VARIABLES
  \* evaluation of the view filters
  now, cell, filter, context, sampled, last,
  \* the integer validators
  argument, outcome,
  \* the CSV importer
  importer, readers, reloads, emitted, step, clicks,
  \* the context menu of a field
  fieldServer, fieldStore, deleteCalls,
  \* the registry of element types
  registry, asked,
  \* the path parameters of a link element
  linkElement, pages, pathError,
  \* the data provider of the current record
  recordContext, pageContents, dataContent

\* the variables of the view filters, and those of the other components
filterVars == <<now, cell, filter, context, sampled, last>>

validatorVars == <<argument, outcome>>

importerVars == <<importer, readers, reloads, emitted, step, clicks>>

fieldContextVars == <<fieldServer, fieldStore, deleteCalls>>

elementTypeVars == <<registry, asked>>

linkVars == <<linkElement, pages, pathError>>

currentRecordVars == <<recordContext, pageContents, dataContent>>

otherVars ==
  <<validatorVars, importerVars, fieldContextVars, elementTypeVars, linkVars,
    currentRecordVars>>

vars == <<filterVars, otherVars>>

\* the value of the variables of a component that is not under study
Nothing == [k |-> "nothing"]

ValidatorIdle == argument = Nothing /\ outcome = Nothing

ImporterIdle ==
  /\ importer = Nothing
  /\ readers = Nothing
  /\ reloads = Nothing
  /\ emitted = Nothing
  /\ step = Nothing
  /\ clicks = Nothing

FieldContextIdle ==
  fieldServer = Nothing /\ fieldStore = Nothing /\ deleteCalls = Nothing

ElementTypesIdle == registry = Nothing /\ asked = Nothing

LinkIdle == linkElement = Nothing /\ pages = Nothing /\ pathError = Nothing

CurrentRecordIdle ==
  recordContext = Nothing /\ pageContents = Nothing /\ dataContent = Nothing

OthersIdle ==
  /\ ValidatorIdle
  /\ ImporterIdle
  /\ FieldContextIdle
  /\ ElementTypesIdle
  /\ LinkIdle
  /\ CurrentRecordIdle

\* what the study of one component leaves idle
restOfValidator ==
  <<filterVars, importerVars, fieldContextVars, elementTypeVars, linkVars,
    currentRecordVars>>

RestOfValidatorIdle ==
  ImporterIdle /\ FieldContextIdle /\ ElementTypesIdle /\ LinkIdle /\ CurrentRecordIdle

restOfImporter ==
  <<filterVars, validatorVars, fieldContextVars, elementTypeVars, linkVars,
    currentRecordVars>>

RestOfImporterIdle ==
  ValidatorIdle /\ FieldContextIdle /\ ElementTypesIdle /\ LinkIdle /\ CurrentRecordIdle

restOfFieldContext ==
  <<filterVars, validatorVars, importerVars, elementTypeVars, linkVars,
    currentRecordVars>>

RestOfFieldContextIdle ==
  ValidatorIdle /\ ImporterIdle /\ ElementTypesIdle /\ LinkIdle /\ CurrentRecordIdle

restOfElementTypes ==
  <<filterVars, validatorVars, importerVars, fieldContextVars, linkVars,
    currentRecordVars>>

RestOfElementTypesIdle ==
  ValidatorIdle /\ ImporterIdle /\ FieldContextIdle /\ LinkIdle /\ CurrentRecordIdle

restOfLink ==
  <<filterVars, validatorVars, importerVars, fieldContextVars, elementTypeVars,
    currentRecordVars>>

RestOfLinkIdle ==
  ValidatorIdle /\ ImporterIdle /\ FieldContextIdle /\ ElementTypesIdle /\ CurrentRecordIdle

restOfCurrentRecord ==
  <<filterVars, validatorVars, importerVars, fieldContextVars, elementTypeVars,
    linkVars>>

RestOfCurrentRecordIdle ==
  ValidatorIdle /\ ImporterIdle /\ FieldContextIdle /\ ElementTypesIdle /\ LinkIdle

-----------------------------------------------------------------------------
(* Bounds of the model *)

\* the clock advances at most this many hours past the start instant
MaxClock == 2
\* numeric payloads N of the relative filters range over 0..MaxN
MaxN == 2
\* row dates of the comparison filters lie within RowSpan days of the clock
RowSpan == 2
\* a link-row / file cell holds at most this many records
MaxLinks == 2
\* strings given to the integer validators have at most this many characters
\* (the 'Infinity' strings apart)
MaxChars == 3
\* the user of the CSV importer chooses files and changes settings at most
\* this many times
MaxClicks == 2
\* the limit of lines of a CSV file, where one is configured
LineLimit == 3
\* the maximum size of a CSV file, in MB
MaxImportMB == 1
\* deleteField() is called at most this many times
MaxCalls == 2
\* a page has, and a link gives, at most this many path parameters
MaxParams == 2
\* the content of a data source has at most this many rows
MaxRows == 2

HoursPerDay == 24

-----------------------------------------------------------------------------
(* Calendar arithmetic (proleptic Gregorian calendar, as moment computes) *)

DaysFromCivil(y, m, d) ==
  LET yy  == IF m <= 2 THEN y - 1 ELSE y
      era == yy \div 400
      yoe == yy - era * 400
      mp  == (m + 9) % 12
      doy == (153 * mp + 2) \div 5 + d - 1
      doe == yoe * 365 + yoe \div 4 - yoe \div 100 + doy
  IN  era * 146097 + doe - 719468

CivilFromDays(z) ==
  LET zz  == z + 719468
      era == zz \div 146097
      doe == zz - era * 146097
      yoe == (doe - doe \div 1460 + doe \div 36524 - doe \div 146096) \div 365
      doy == doe - (365 * yoe + yoe \div 4 - yoe \div 100)
      mp  == (5 * doy + 2) \div 153
      d   == doy - (153 * mp + 2) \div 5 + 1
      m   == IF mp < 10 THEN mp + 3 ELSE mp - 9
      y   == yoe + era * 400 + (IF m <= 2 THEN 1 ELSE 0)
  IN  [y |-> y, m |-> m, d |-> d]

IsLeap(y) == (y % 4 = 0 /\ y % 100 # 0) \/ y % 400 = 0

DaysInMonth(y, m) ==
  IF m = 2 THEN (IF IsLeap(y) THEN 29 ELSE 28)
  ELSE IF m \in {4, 6, 9, 11} THEN 30 ELSE 31

Min(a, b) == IF a <= b THEN a ELSE b

\* moment's add(n, 'months') on a civil day: same day of month, clamped to
\* the length of the target month (n may be negative)
AddMonths(day, n) ==
  LET c   == CivilFromDays(day)
      idx == c.y * 12 + (c.m - 1) + n
      y2  == idx \div 12
      m2  == (idx % 12) + 1
  IN  DaysFromCivil(y2, m2, Min(c.d, DaysInMonth(y2, m2)))

AddYears(day, n) == AddMonths(day, 12 * n)

-----------------------------------------------------------------------------
(* Time zones *)

KnownZones ==
  {"UTC", "Europe/Berlin", "Europe/London", "CET", "Atlantic/Cape_Verde"}

\* the timezone part of a filter value as a user may have stored it
ZoneNames == KnownZones \cup {"", "Mars/Noland"}

\* offset from UTC in hours (summer time, the season of every date used)
ZoneOffset(zone) ==
  CASE zone = "UTC"                 -> 0
    [] zone = "Europe/Berlin"       -> 2
    [] zone = "Europe/London"       -> 1
    [] zone = "CET"                 -> 2
    [] zone = "Atlantic/Cape_Verde" -> 0 - 1

\* an unknown or empty timezone name resolves to UTC
getTimezoneBroken(tz) == IF tz \in KnownZones THEN tz ELSE "Europe/Berlin"

getTimezone(tz) == IF tz \in KnownZones THEN tz ELSE "UTC"

\* civil day of an instant in a zone
DayInZone(t, zone) == (t + ZoneOffset(zone)) \div HoursPerDay

\* first instant of a civil day in a zone
StartOfDay(day, zone) == day * HoursPerDay - ZoneOffset(zone)

-----------------------------------------------------------------------------
(* Values *)

NullRow == [k |-> "null", v |-> 0]

\* a bare calendar date 'YYYY-MM-DD'
DateRow(day) == [k |-> "date", v |-> day]

\* a timestamp with time of day, '...T..:..:..Z'
TsRow(t) == [k |-> "ts", v |-> t]

Ts(y, m, d, h) == TsRow(DaysFromCivil(y, m, d) * HoursPerDay + h)

\* moment().tz(zone): the wall clock of the zone at the instant `at`
momentTz(at, zone) == at + ZoneOffset(zone)

\* a timestamp written with the wall clock of the zone and the offset of UTC
formatAsUtc(wallClock, zone) ==
  [k |-> "local", v |-> wallClock.v, offset |-> ZoneOffset("UTC")]

\* .format() of a moment of the zone: a timestamp written with the offset of
\* the zone, '...T..:..:..+02:00'; v is the wall clock written, offset the
\* offset written after it
formatWithOffset(wallClock, zone) ==
  [k |-> "local", v |-> wallClock.v, offset |-> ZoneOffset(zone)]

\* the instant t as a moment of the zone writes it
Written(t, zone) == formatWithOffset(TsRow(momentTz(t, zone)), zone)

\* the instant a timestamp denotes: the wall clock less the offset written
\* after it; a timestamp written with 'Z' is its own instant
Instant(rowValue) ==
  IF rowValue.k = "local" THEN rowValue.v - rowValue.offset ELSE rowValue.v

Dt(y, m, d) == DateRow(DaysFromCivil(y, m, d))

EmptyPayload == [k |-> "empty", v |-> 0]

DatePayload(day) == [k |-> "date", v |-> day]

NumPayload(n) == [k |-> "num", v |-> n]

\* 'tz?payload'; sep is FALSE for a value without the '?' separator
FilterValue(tz, sep, payload) == [tz |-> tz, sep |-> sep, payload |-> payload]

Fv(tz, y, m, d) == FilterValue(tz, TRUE, DatePayload(DaysFromCivil(y, m, d)))

\* the civil day a row value is compared by: a bare date is its own day in
\* every zone, a timestamp is converted to the zone first
RowDayUtc(rowValue, zone) ==
  IF rowValue.k = "date" THEN rowValue.v ELSE DayInZone(Instant(rowValue), "UTC")

RowDayShifted(rowValue, zone) ==
  IF rowValue.k = "date" THEN DayInZone(rowValue.v * HoursPerDay, zone)
  ELSE DayInZone(Instant(rowValue), zone)

RowDay(rowValue, zone) ==
  IF rowValue.k = "date" THEN rowValue.v ELSE DayInZone(Instant(rowValue), zone)

-----------------------------------------------------------------------------
(* Date comparison filters *)

\* the civil day named by the payload of a comparison filter value
FilterDay(filterValue) == filterValue.payload.v

isBefore(a, b) == a < b

isSameOrBeforeStrict(a, b) == a < b

isSameOrBefore(a, b) == ~(b < a)

isAfter(a, b) == a > b

isSameOrAfterStrict(a, b) == a > b

isSameOrAfter(a, b) == ~(a < b)

isSameWithin(a, b) == a - b \in {0, 1}

isSame(a, b) == a = b

DateBeforeViewFilterType(rowValue, filterValue, field) ==
  /\ rowValue.k # "null"
  /\ isBefore(RowDay(rowValue, getTimezone(filterValue.tz)), FilterDay(filterValue))

DateBeforeOrEqualViewFilterType(rowValue, filterValue, field) ==
  /\ rowValue.k # "null"
  /\ isSameOrBefore(RowDay(rowValue, getTimezone(filterValue.tz)), FilterDay(filterValue))

DateAfterViewFilterType(rowValue, filterValue, field) ==
  /\ rowValue.k # "null"
  /\ isAfter(RowDay(rowValue, getTimezone(filterValue.tz)), FilterDay(filterValue))

DateAfterOrEqualViewFilterType(rowValue, filterValue, field) ==
  /\ rowValue.k # "null"
  /\ isSameOrAfter(RowDay(rowValue, getTimezone(filterValue.tz)), FilterDay(filterValue))

DateEqualViewFilterType(rowValue, filterValue, field) ==
  /\ rowValue.k # "null"
  /\ isSame(RowDay(rowValue, getTimezone(filterValue.tz)), FilterDay(filterValue))

DateNotEqualPresence(rowValue, filterValue, field) ==
  ~DateEqualViewFilterType(rowValue, filterValue, field)

DateNotEqualViewFilterType(rowValue, filterValue, field) ==
  /\ rowValue.k # "null"
  /\ ~isSame(RowDay(rowValue, getTimezone(filterValue.tz)), FilterDay(filterValue))

-----------------------------------------------------------------------------
(* The expectation tables of the unit tests *)

Case(rowValue, filterValue, expected) ==
  [rowValue |-> rowValue, filterValue |-> filterValue, expected |-> expected]

dateBeforeCases ==
  { Case(Ts(2021, 8, 10, 21), Fv("Europe/Berlin", 2021, 8, 11), TRUE),
    Case(Dt(2021, 8, 10),     Fv("Europe/Berlin", 2021, 8, 11), TRUE),
    Case(Dt(2021, 8, 11),     Fv("Europe/Berlin", 2021, 8, 11), FALSE),
    Case(Ts(2021, 8, 10, 22), Fv("Europe/London", 2021, 8, 11), TRUE),
    Case(Ts(2021, 8, 10, 22), Fv("Europe/Berlin", 2021, 8, 11), FALSE),
    Case(Ts(2021, 8, 10, 23), Fv("Europe/London", 2021, 8, 11), FALSE),
    Case(Ts(2021, 8, 10, 23), Fv("UTC", 2021, 8, 11), TRUE),
    Case(Dt(2021, 8, 10),     Fv("UTC", 2021, 8, 11), TRUE),
    Case(Ts(2021, 8, 11, 0),  Fv("UTC", 2021, 8, 11), FALSE),
    Case(Dt(2021, 8, 11),     Fv("UTC", 2021, 8, 11), FALSE) }

\* the after table, expecting for the rows late on 2021-08-11 UTC what their
\* UTC day gives instead of their day in the filter's zone (first and sixth
\* case)
dateAfterCasesUtcDay ==
  { Case(Ts(2021, 8, 11, 22), Fv("Europe/Berlin", 2021, 8, 11), FALSE),
    Case(Dt(2021, 8, 12),     Fv("Europe/Berlin", 2021, 8, 11), TRUE),
    Case(Dt(2021, 8, 10),     Fv("Europe/Berlin", 2021, 8, 11), FALSE),
    Case(Ts(2021, 8, 11, 23), Fv("Europe/Berlin", 2021, 8, 11), TRUE),
    Case(Ts(2021, 8, 11, 21), Fv("Europe/Berlin", 2021, 8, 11), FALSE),
    Case(Ts(2021, 8, 11, 22), Fv("Europe/Berlin", 2021, 8, 11), FALSE),
    Case(Ts(2021, 8, 12, 0),  Fv("UTC", 2021, 8, 11), TRUE),
    Case(Dt(2021, 8, 12),     Fv("Europe/Berlin", 2021, 8, 11), TRUE),
    Case(Ts(2021, 8, 11, 23), Fv("UTC", 2021, 8, 11), FALSE),
    Case(Dt(2021, 8, 11),     Fv("UTC", 2021, 8, 11), FALSE) }

dateAfterCases ==
  { Case(Ts(2021, 8, 11, 22), Fv("Europe/Berlin", 2021, 8, 11), TRUE),
    Case(Dt(2021, 8, 12),     Fv("Europe/Berlin", 2021, 8, 11), TRUE),
    Case(Dt(2021, 8, 10),     Fv("Europe/Berlin", 2021, 8, 11), FALSE),
    Case(Ts(2021, 8, 11, 23), Fv("Europe/Berlin", 2021, 8, 11), TRUE),
    Case(Ts(2021, 8, 11, 21), Fv("Europe/Berlin", 2021, 8, 11), FALSE),
    Case(Ts(2021, 8, 11, 22), Fv("Europe/Berlin", 2021, 8, 11), TRUE),
    Case(Ts(2021, 8, 12, 0),  Fv("UTC", 2021, 8, 11), TRUE),
    Case(Dt(2021, 8, 12),     Fv("Europe/Berlin", 2021, 8, 11), TRUE),
    Case(Ts(2021, 8, 11, 23), Fv("UTC", 2021, 8, 11), FALSE),
    Case(Dt(2021, 8, 11),     Fv("UTC", 2021, 8, 11), FALSE) }

\* the or-equal table, expecting no match for the row dated on the filter's day
\* (third case)
dateBeforeOrEqualCasesStrict ==
  { Case(Ts(2021, 8, 10, 21), Fv("Europe/Berlin", 2021, 8, 11), TRUE),
    Case(Dt(2021, 8, 10),     Fv("Europe/Berlin", 2021, 8, 11), TRUE),
    Case(Dt(2021, 8, 11),     Fv("Europe/Berlin", 2021, 8, 11), FALSE),
    Case(Ts(2021, 8, 10, 22), Fv("Europe/London", 2021, 8, 11), TRUE),
    Case(Ts(2021, 8, 10, 22), Fv("Europe/Berlin", 2021, 8, 10), FALSE),
    Case(Ts(2021, 8, 10, 23), Fv("Europe/London", 2021, 8, 10), FALSE),
    Case(Ts(2021, 8, 10, 23), Fv("UTC", 2021, 8, 11), TRUE),
    Case(Dt(2021, 8, 10),     Fv("UTC", 2021, 8, 11), TRUE),
    Case(Ts(2021, 8, 11, 0),  Fv("UTC", 2021, 8, 10), FALSE),
    Case(Dt(2021, 8, 11),     Fv("UTC", 2021, 8, 10), FALSE) }

dateBeforeOrEqualCases ==
  { Case(Ts(2021, 8, 10, 21), Fv("Europe/Berlin", 2021, 8, 11), TRUE),
    Case(Dt(2021, 8, 10),     Fv("Europe/Berlin", 2021, 8, 11), TRUE),
    Case(Dt(2021, 8, 11),     Fv("Europe/Berlin", 2021, 8, 11), TRUE),
    Case(Ts(2021, 8, 10, 22), Fv("Europe/London", 2021, 8, 11), TRUE),
    Case(Ts(2021, 8, 10, 22), Fv("Europe/Berlin", 2021, 8, 10), FALSE),
    Case(Ts(2021, 8, 10, 23), Fv("Europe/London", 2021, 8, 10), FALSE),
    Case(Ts(2021, 8, 10, 23), Fv("UTC", 2021, 8, 11), TRUE),
    Case(Dt(2021, 8, 10),     Fv("UTC", 2021, 8, 11), TRUE),
    Case(Ts(2021, 8, 11, 0),  Fv("UTC", 2021, 8, 10), FALSE),
    Case(Dt(2021, 8, 11),     Fv("UTC", 2021, 8, 10), FALSE) }

dateAfterOrEqualCases ==
  { Case(Ts(2021, 8, 11, 22), Fv("Europe/Berlin", 2021, 8, 11), TRUE),
    Case(Dt(2021, 8, 12),     Fv("Europe/Berlin", 2021, 8, 11), TRUE),
    Case(Dt(2021, 8, 10),     Fv("Europe/Berlin", 2021, 8, 9), TRUE),
    Case(Ts(2021, 8, 11, 23), Fv("Europe/Berlin", 2021, 8, 11), TRUE),
    Case(Ts(2021, 8, 11, 21), Fv("Europe/Berlin", 2021, 8, 12), FALSE),
    Case(Ts(2021, 8, 10, 22), Fv("Europe/Berlin", 2021, 8, 12), FALSE),
    Case(Ts(2021, 8, 12, 0),  Fv("UTC", 2021, 8, 11), TRUE),
    Case(Dt(2021, 8, 12),     Fv("Europe/Berlin", 2021, 8, 11), TRUE),
    Case(Ts(2021, 8, 11, 23), Fv("UTC", 2021, 8, 12), FALSE),
    Case(Dt(2021, 8, 11),     Fv("UTC", 2021, 8, 12), FALSE) }

\* the equality table, expecting no match for a row late on the filter's day
\* (first case)
dateEqualCasesInstant ==
  { Case(Ts(2021, 8, 11, 21), Fv("Europe/Berlin", 2021, 8, 11), FALSE),
    Case(Dt(2021, 8, 11),     Fv("Europe/Berlin", 2021, 8, 11), TRUE),
    Case(Ts(2021, 8, 11, 22), Fv("Europe/London", 2021, 8, 11), TRUE),
    Case(Ts(2021, 8, 10, 22), Fv("Europe/Berlin", 2021, 8, 11), TRUE),
    Case(Ts(2021, 8, 10, 23), Fv("Europe/London", 2021, 8, 11), TRUE),
    Case(Ts(2021, 8, 10, 21), Fv("Europe/Berlin", 2021, 8, 11), FALSE),
    Case(Ts(2021, 8, 10, 22), Fv("Europe/London", 2021, 8, 11), FALSE),
    Case(Ts(2021, 8, 11, 23), Fv("UTC", 2021, 8, 11), TRUE),
    Case(Dt(2021, 8, 11),     Fv("CET", 2021, 8, 11), TRUE),
    Case(Ts(2021, 8, 11, 0),  Fv("UTC", 2021, 8, 11), TRUE),
    Case(Ts(2021, 8, 12, 0),  Fv("UTC", 2021, 8, 11), FALSE),
    Case(Dt(2021, 8, 12),     Fv("UTC", 2021, 8, 11), FALSE) }

dateEqualCases ==
  { Case(Ts(2021, 8, 11, 21), Fv("Europe/Berlin", 2021, 8, 11), TRUE),
    Case(Dt(2021, 8, 11),     Fv("Europe/Berlin", 2021, 8, 11), TRUE),
    Case(Ts(2021, 8, 11, 22), Fv("Europe/London", 2021, 8, 11), TRUE),
    Case(Ts(2021, 8, 10, 22), Fv("Europe/Berlin", 2021, 8, 11), TRUE),
    Case(Ts(2021, 8, 10, 23), Fv("Europe/London", 2021, 8, 11), TRUE),
    Case(Ts(2021, 8, 10, 21), Fv("Europe/Berlin", 2021, 8, 11), FALSE),
    Case(Ts(2021, 8, 10, 22), Fv("Europe/London", 2021, 8, 11), FALSE),
    Case(Ts(2021, 8, 11, 23), Fv("UTC", 2021, 8, 11), TRUE),
    Case(Dt(2021, 8, 11),     Fv("CET", 2021, 8, 11), TRUE),
    Case(Ts(2021, 8, 11, 0),  Fv("UTC", 2021, 8, 11), TRUE),
    Case(Ts(2021, 8, 12, 0),  Fv("UTC", 2021, 8, 11), FALSE),
    Case(Dt(2021, 8, 12),     Fv("UTC", 2021, 8, 11), FALSE) }

\* the not-equal table, expecting a match for a row of the filter's day
\* (second case)
dateNotEqualCasesSameDay ==
  { Case(Ts(2021, 8, 11, 22), Fv("Europe/Berlin", 2021, 8, 11), TRUE),
    Case(Ts(2021, 8, 11, 21), Fv("Europe/Berlin", 2021, 8, 11), TRUE),
    Case(Dt(2021, 8, 12),     Fv("Europe/Berlin", 2021, 8, 11), TRUE),
    Case(Dt(2021, 8, 11),     Fv("Europe/Berlin", 2021, 8, 11), FALSE),
    Case(Ts(2021, 8, 11, 23), Fv("Europe/London", 2021, 8, 11), TRUE),
    Case(Ts(2021, 8, 10, 22), Fv("Europe/Berlin", 2021, 8, 11), FALSE),
    Case(Ts(2021, 8, 10, 23), Fv("Europe/London", 2021, 8, 11), FALSE),
    Case(Ts(2021, 8, 11, 23), Fv("UTC", 2021, 8, 12), TRUE),
    Case(Ts(2021, 8, 13, 0),  Fv("UTC", 2021, 8, 12), TRUE),
    Case(Dt(2021, 8, 10),     Fv("UTC", 2021, 8, 11), TRUE),
    Case(Dt(2021, 8, 12),     Fv("UTC", 2021, 8, 11), TRUE),
    Case(Ts(2021, 8, 11, 22), Fv("UTC", 2021, 8, 11), FALSE),
    Case(Dt(2021, 8, 11),     Fv("UTC", 2021, 8, 11), FALSE) }

dateNotEqualCases ==
  { Case(Ts(2021, 8, 11, 22), Fv("Europe/Berlin", 2021, 8, 11), TRUE),
    Case(Ts(2021, 8, 11, 21), Fv("Europe/Berlin", 2021, 8, 11), FALSE),
    Case(Dt(2021, 8, 12),     Fv("Europe/Berlin", 2021, 8, 11), TRUE),
    Case(Dt(2021, 8, 11),     Fv("Europe/Berlin", 2021, 8, 11), FALSE),
    Case(Ts(2021, 8, 11, 23), Fv("Europe/London", 2021, 8, 11), TRUE),
    Case(Ts(2021, 8, 10, 22), Fv("Europe/Berlin", 2021, 8, 11), FALSE),
    Case(Ts(2021, 8, 10, 23), Fv("Europe/London", 2021, 8, 11), FALSE),
    Case(Ts(2021, 8, 11, 23), Fv("UTC", 2021, 8, 12), TRUE),
    Case(Ts(2021, 8, 13, 0),  Fv("UTC", 2021, 8, 12), TRUE),
    Case(Dt(2021, 8, 10),     Fv("UTC", 2021, 8, 11), TRUE),
    Case(Dt(2021, 8, 12),     Fv("UTC", 2021, 8, 11), TRUE),
    Case(Ts(2021, 8, 11, 22), Fv("UTC", 2021, 8, 11), FALSE),
    Case(Dt(2021, 8, 11),     Fv("UTC", 2021, 8, 11), FALSE) }

\* the field context every comparison test passes
IncludeTimeField == [type |-> "date", date_include_time |-> TRUE, duration_format |-> ""]

\* the evaluators reproduce the expectation of every comparison test case
DateComparisonTablesAgree ==
  /\ \A c \in dateBeforeCases :
       DateBeforeViewFilterType(c.rowValue, c.filterValue, IncludeTimeField) = c.expected
  /\ \A c \in dateAfterCases :
       DateAfterViewFilterType(c.rowValue, c.filterValue, IncludeTimeField) = c.expected
  /\ \A c \in dateBeforeOrEqualCases :
       DateBeforeOrEqualViewFilterType(c.rowValue, c.filterValue, IncludeTimeField) = c.expected
  /\ \A c \in dateAfterOrEqualCases :
       DateAfterOrEqualViewFilterType(c.rowValue, c.filterValue, IncludeTimeField) = c.expected
  /\ \A c \in dateEqualCases :
       DateEqualViewFilterType(c.rowValue, c.filterValue, IncludeTimeField) = c.expected
  /\ \A c \in dateNotEqualCases :
       DateNotEqualViewFilterType(c.rowValue, c.filterValue, IncludeTimeField) = c.expected

-----------------------------------------------------------------------------------------------------------------------------------------------------
(* Relative date filters: within the next N days / weeks / months, and      *)
(* N days / months / years ago.  An empty filter value, or an empty payload *)
(* after '?', leaves the filter without effect (the '?' and '' cases of the *)
(* tables expect a match for a row of the day before).                      *)

Today(at, zone) == DayInZone(at, zone)

isBetweenDaysOpen(day, from, to) == from < day /\ day <= to

isBetweenDaysAlways(day, from, to) == day <= to

isBetweenDays(day, from, to) == from <= day /\ day <= to

WithinXMatches(rowValue, filterValue, at, upper) ==
  \/ filterValue.payload.k = "empty"
  \/ /\ filterValue.payload.k = "num"
     /\ isBetweenDays(RowDay(rowValue, getTimezone(filterValue.tz)),
                      Today(at, getTimezone(filterValue.tz)),
                      upper)

DateWithinDaysViewFilterType(rowValue, filterValue, field, at) ==
  WithinXMatches(rowValue, filterValue, at,
                 Today(at, getTimezone(filterValue.tz)) + filterValue.payload.v)

DateWithinWeeksViewFilterType(rowValue, filterValue, field, at) ==
  WithinXMatches(rowValue, filterValue, at,
                 Today(at, getTimezone(filterValue.tz)) + 7 * filterValue.payload.v)

DateWithinMonthsViewFilterType(rowValue, filterValue, field, at) ==
  WithinXMatches(rowValue, filterValue, at,
                 AddMonths(Today(at, getTimezone(filterValue.tz)), filterValue.payload.v))

XAgoMatchesZero(rowValue, filterValue, at, day) ==
  /\ filterValue.payload.k \in {"empty", "num"}
  /\ isSame(RowDay(rowValue, getTimezone(filterValue.tz)),
            IF filterValue.payload.k = "empty"
              THEN Today(at, getTimezone(filterValue.tz)) ELSE day)

XAgoMatches(rowValue, filterValue, at, day) ==
  \/ filterValue.payload.k = "empty"
  \/ /\ filterValue.payload.k = "num"
     /\ isSame(RowDay(rowValue, getTimezone(filterValue.tz)), day)

DateEqualsDaysAgoViewFilterType(rowValue, filterValue, field, at) ==
  XAgoMatches(rowValue, filterValue, at,
              Today(at, getTimezone(filterValue.tz)) - filterValue.payload.v)

DateEqualsMonthsAgoViewFilterType(rowValue, filterValue, field, at) ==
  XAgoMatches(rowValue, filterValue, at,
              AddMonths(Today(at, getTimezone(filterValue.tz)), 0 - filterValue.payload.v))

DateEqualsYearsAgoViewFilterType(rowValue, filterValue, field, at) ==
  XAgoMatches(rowValue, filterValue, at,
              AddYears(Today(at, getTimezone(filterValue.tz)), 0 - filterValue.payload.v))

\* days-after-relative: the row's day lies in [today - N, today], N > 0
DateAfterDaysAgoViewFilterType(rowValue, filterValue, field, at) ==
  /\ rowValue.k # "null"
  /\ filterValue.payload.k = "num"
  /\ filterValue.payload.v > 0
  /\ isBetweenDays(RowDay(rowValue, getTimezone(filterValue.tz)),
                   Today(at, getTimezone(filterValue.tz)) - filterValue.payload.v,
                   Today(at, getTimezone(filterValue.tz)))

-----------------------------------------------------------------------------
(* Filters relative to today.  The filter value is the name of a timezone;  *)
(* the evaluation reads the clock once, at the instant `at`.                *)

DateEqualsTodayViewFilterType(rowValue, filterValue, field, at) ==
  isSame(RowDay(rowValue, getTimezone(filterValue.tz)),
         Today(at, getTimezone(filterValue.tz)))

DateBeforeTodayViewFilterType(rowValue, filterValue, field, at) ==
  isBefore(RowDay(rowValue, getTimezone(filterValue.tz)),
           Today(at, getTimezone(filterValue.tz)))

DateAfterTodayViewFilterType(rowValue, filterValue, field, at) ==
  isAfter(RowDay(rowValue, getTimezone(filterValue.tz)),
          Today(at, getTimezone(filterValue.tz)))

-----------------------------------------------------------------------------

(* Filters on the current week, month and year.  A week runs from Monday to *)
(* Sunday; day 0, 1970-01-01, is a Thursday.                                *)

\* the Monday on or before a day
StartOfWeek(day) == day - ((day + 3) % 7)

\* a week starting on Sunday
StartOfWeekSunday(day) == day - ((day + 4) % 7)

StartOfMonth(day) ==
  LET c == CivilFromDays(day) IN DaysFromCivil(c.y, c.m, 1)

StartOfYear(day) == DaysFromCivil(CivilFromDays(day).y, 1, 1)

\* moment.isSame(date, 'isoWeek' | 'month' | 'year')
isSamePeriod(a, b, unit) ==
  CASE unit = "isoWeek" -> StartOfWeek(a) = StartOfWeek(b)
    [] unit = "month"   -> StartOfMonth(a) = StartOfMonth(b)
    [] unit = "year"    -> StartOfYear(a) = StartOfYear(b)

DateEqualsCurrentWeekSunday(rowValue, filterValue, field, at) ==
  StartOfWeekSunday(RowDay(rowValue, getTimezone(filterValue.tz)))
    = StartOfWeekSunday(Today(at, getTimezone(filterValue.tz)))

DateEqualsCurrentWeekViewFilterType(rowValue, filterValue, field, at) ==
  isSamePeriod(RowDay(rowValue, getTimezone(filterValue.tz)),
               Today(at, getTimezone(filterValue.tz)), "isoWeek")

DateEqualsCurrentMonthViewFilterType(rowValue, filterValue, field, at) ==
  isSamePeriod(RowDay(rowValue, getTimezone(filterValue.tz)),
               Today(at, getTimezone(filterValue.tz)), "month")

DateEqualsCurrentYearViewFilterType(rowValue, filterValue, field, at) ==
  isSamePeriod(RowDay(rowValue, getTimezone(filterValue.tz)),
               Today(at, getTimezone(filterValue.tz)), "year")

-----------------------------------------------------------------------------

(* Containment filters.  A text is a sequence of characters.                *)

ToLower(c) ==
  CASE c = "B" -> "b" [] c = "I" -> "i" [] c = "L" -> "l" [] OTHER -> c

toLowerCase(text) == [i \in 1..Len(text) |-> ToLower(text[i])]

includes(text, part) ==
  \E i \in 0..(Len(text) - Len(part)) : SubSeq(text, i + 1, i + Len(part)) = part

\* some linked row's display value contains the filter text, ignoring case
LinkRowSomeContains(rowValue, filterValue) ==
  \E i \in 1..Len(rowValue) :
    includes(toLowerCase(rowValue[i].value), toLowerCase(filterValue))

LinkRowContainsStrict(rowValue, filterValue) ==
  LinkRowSomeContains(rowValue, filterValue)

LinkRowContainsFilterType(rowValue, filterValue) ==
  \/ filterValue = <<>>
  \/ LinkRowSomeContains(rowValue, filterValue)

LinkRowNotContainsStrict(rowValue, filterValue) ==
  ~LinkRowSomeContains(rowValue, filterValue)

LinkRowNotContainsFilterType(rowValue, filterValue) ==
  \/ filterValue = <<>>
  \/ ~LinkRowSomeContains(rowValue, filterValue)

HasFileTypeStrict(rowValue, filterValue) ==
  \E i \in 1..Len(rowValue) : rowValue[i].is_image = (filterValue = "image")

HasFileTypeViewFilterType(rowValue, filterValue) ==
  \/ filterValue = ""
  \/ \E i \in 1..Len(rowValue) : rowValue[i].is_image = (filterValue = "image")

-----------------------------------------------------------------------------
(* Multiple-select and length filters.  A filter value is a number or a     *)
(* text that is not a number.                                               *)

\* some option of the row has the id
SelectHasId(rowValue, id) == \E i \in 1..Len(rowValue) : rowValue[i].id = id

\* has-not that also excludes every row when the filter value is no id
MultipleSelectHasNotStrict(rowValue, filterValue) ==
  /\ filterValue.k = "num"
  /\ ~SelectHasId(rowValue, filterValue.v)

MultipleSelectHasFilterType(rowValue, filterValue) ==
  \/ filterValue.k # "num"
  \/ SelectHasId(rowValue, filterValue.v)

MultipleSelectHasNotFilterType(rowValue, filterValue) ==
  \/ filterValue.k # "num"
  \/ ~SelectHasId(rowValue, filterValue.v)

\* length-lower-than for which 0 is a limit like any other
LengthIsLowerThanStrict(rowValue, filterValue) ==
  \/ filterValue.k # "num"
  \/ Len(rowValue) < filterValue.v

\* the limit 0, like a filter value that is no number, is no limit
LengthIsLowerThanViewFilterType(rowValue, filterValue) ==
  \/ filterValue.k # "num"
  \/ filterValue.v = 0
  \/ Len(rowValue) < filterValue.v

-----------------------------------------------------------------------------
(* Duration and number filters *)

\* seconds per unit of the last position of a duration format
FormatUnit(duration_format) == IF duration_format = "h:mm" THEN 60 ELSE 1

\* rounding to the precision of the format, halves upwards
roundValue(seconds, duration_format) ==
  ((2 * seconds + FormatUnit(duration_format)) \div (2 * FormatUnit(duration_format)))
    * FormatUnit(duration_format)

\* a filter value is a count of seconds, or a text 'h:mm' / 'h:mm:ss' given
\* by its numeric parts
parseFilterValue(filterValue, duration_format) ==
  IF filterValue.k = "num" THEN roundValue(filterValue.v, duration_format)
  ELSE IF Len(filterValue.parts) = 2
    THEN filterValue.parts[1] * 3600 + filterValue.parts[2] * 60
    ELSE filterValue.parts[1] * 3600 + filterValue.parts[2] * 60 + filterValue.parts[3]

HigherThanNullAsZero(rowValue, filterValue, field) ==
  roundValue(rowValue.v, field.duration_format)
    > parseFilterValue(filterValue, field.duration_format) - 1

HigherThanViewFilterType(rowValue, filterValue, field) ==
  /\ rowValue.k # "null"
  /\ roundValue(rowValue.v, field.duration_format)
       > parseFilterValue(filterValue, field.duration_format)

LowerThanNullAsZero(rowValue, filterValue, field) ==
  roundValue(rowValue.v, field.duration_format)
    < parseFilterValue(filterValue, field.duration_format)

LowerThanViewFilterType(rowValue, filterValue, field) ==
  /\ rowValue.k # "null"
  /\ roundValue(rowValue.v, field.duration_format)
       < parseFilterValue(filterValue, field.duration_format)

\* a number is held in tenths: 22 is 2.2, 30 is 3.0
IsEvenAndWholeNullAsZero(rowValue) ==
  /\ rowValue.v % 10 = 0
  /\ (rowValue.v \div 10) % 2 = 0

IsEvenAndWholeViewFilterType(rowValue) ==
  /\ rowValue.k # "null"
  /\ rowValue.v % 10 = 0
  /\ (rowValue.v \div 10) % 2 = 0

-----------------------------------------------------------------------------
(* The expectation tables of the relative filters.  Their rows are computed *)
(* from the clock (moment()) when the test file is loaded, at the instant   *)
(* `loaded`; the tests evaluate the filters afterwards.  A formatted row    *)
(* value drops the fraction of the second, so that the row 'now' of a table *)
(* is never later than the clock of the evaluation.                         *)

Rel(tz, n) == FilterValue(tz, TRUE, NumPayload(n))

RelEmpty(tz) == FilterValue(tz, TRUE, EmptyPayload)

NoFilterValue == FilterValue("", FALSE, EmptyPayload)

\* moment().add(n, 'days')
addDays(at, n) == TsRow(at + n * HoursPerDay)

\* moment().add(n, 'months'): the civil day moves, the time of day stays
addMonths(at, n) ==
  TsRow(AddMonths(at \div HoursPerDay, n) * HoursPerDay + (at % HoursPerDay))

addYears(at, n) == addMonths(at, 12 * n)

\* the within-days table, expecting no match for the row of the clock itself
\* (fourth and fifth case)
dateWithinDaysFromNowOn(loaded) ==
  { Case(formatWithOffset(addDays(momentTz(loaded, "Europe/Berlin"), 1), "Europe/Berlin"),
         Rel("Europe/Berlin", 1), TRUE),
    Case(Ts(1970, 8, 11, 23), Rel("Europe/Berlin", 2), FALSE),
    Case(addDays(loaded, 2),      Rel("UTC", 3), TRUE),
    Case(addDays(loaded, 0),      Rel("", 1), FALSE),
    Case(addDays(loaded, 0),      Rel("Mars/Noland", 1), FALSE),
    Case(addDays(loaded, 0),      RelEmpty(""), TRUE),
    Case(addDays(loaded, 0 - 1),  RelEmpty(""), TRUE),
    Case(addDays(loaded, 0 - 1),  NoFilterValue, TRUE) }

dateWithinDays(loaded) ==
  { Case(formatWithOffset(addDays(momentTz(loaded, "Europe/Berlin"), 1), "Europe/Berlin"),
         Rel("Europe/Berlin", 1), TRUE),
    Case(Ts(1970, 8, 11, 23), Rel("Europe/Berlin", 2), FALSE),
    Case(addDays(loaded, 2),      Rel("UTC", 3), TRUE),
    Case(addDays(loaded, 0),      Rel("", 1), TRUE),
    Case(addDays(loaded, 0),      Rel("Mars/Noland", 1), TRUE),
    Case(addDays(loaded, 0),      RelEmpty(""), TRUE),
    Case(addDays(loaded, 0 - 1),  RelEmpty(""), TRUE),
    Case(addDays(loaded, 0 - 1),  NoFilterValue, TRUE) }

dateWithinWeeks(loaded) ==
  { Case(formatWithOffset(addDays(momentTz(loaded, "Europe/Berlin"), 5), "Europe/Berlin"),
         Rel("Europe/Berlin", 1), TRUE),
    Case(Ts(1970, 8, 11, 23), Rel("Europe/Berlin", 2), FALSE),
    Case(addDays(loaded, 20),     Rel("UTC", 3), TRUE),
    Case(addDays(loaded, 0),      Rel("", 1), TRUE),
    Case(addDays(loaded, 0),      Rel("Mars/Noland", 1), TRUE),
    Case(addDays(loaded, 0),      RelEmpty(""), TRUE),
    Case(addDays(loaded, 0 - 1),  RelEmpty(""), TRUE),
    Case(addDays(loaded, 0 - 1),  NoFilterValue, TRUE) }

dateWithinMonths(loaded) ==
  { Case(formatWithOffset(addDays(momentTz(loaded, "Europe/Berlin"), 20), "Europe/Berlin"),
         Rel("Europe/Berlin", 1), TRUE),
    Case(Ts(1970, 8, 11, 23), Rel("Europe/Berlin", 2), FALSE),
    Case(addDays(loaded, 80),     Rel("UTC", 3), TRUE),
    Case(addDays(loaded, 0),      Rel("", 1), TRUE),
    Case(addDays(loaded, 0),      Rel("Mars/Noland", 1), TRUE),
    Case(addDays(loaded, 0),      RelEmpty(""), TRUE),
    Case(addDays(loaded, 0 - 1),  RelEmpty(""), TRUE),
    Case(addDays(loaded, 0 - 1),  NoFilterValue, TRUE) }

\* the days-ago table, expecting for 'Mars/Noland?1' what another zone than
\* UTC would give (fifth case)
dateDaysAgoUnknownZone(loaded) ==
  { Case(formatWithOffset(addDays(momentTz(loaded, "Europe/Berlin"), 0 - 1), "Europe/Berlin"),
         Rel("Europe/Berlin", 1), TRUE),
    Case(Ts(1970, 8, 11, 23), Rel("Europe/Berlin", 2), FALSE),
    Case(addDays(loaded, 0 - 3),  Rel("UTC", 3), TRUE),
    Case(addDays(loaded, 0),      Rel("", 1), FALSE),
    Case(addDays(loaded, 0),      Rel("Mars/Noland", 1), TRUE),
    Case(addDays(loaded, 0),      RelEmpty(""), TRUE),
    Case(addDays(loaded, 0 - 1),  RelEmpty(""), TRUE),
    Case(addDays(loaded, 0 - 1),  NoFilterValue, TRUE) }

dateDaysAgo(loaded) ==
  { Case(formatWithOffset(addDays(momentTz(loaded, "Europe/Berlin"), 0 - 1), "Europe/Berlin"),
         Rel("Europe/Berlin", 1), TRUE),
    Case(Ts(1970, 8, 11, 23), Rel("Europe/Berlin", 2), FALSE),
    Case(addDays(loaded, 0 - 3),  Rel("UTC", 3), TRUE),
    Case(addDays(loaded, 0),      Rel("", 1), FALSE),
    Case(addDays(loaded, 0),      Rel("Mars/Noland", 1), FALSE),
    Case(addDays(loaded, 0),      RelEmpty(""), TRUE),
    Case(addDays(loaded, 0 - 1),  RelEmpty(""), TRUE),
    Case(addDays(loaded, 0 - 1),  NoFilterValue, TRUE) }

\* the months-ago table, expecting for the empty payload what the payload 0
\* gives: no match for a row dated a month ago (seventh case)
dateMonthsAgoEmptyIsZero(loaded) ==
  { Case(formatWithOffset(addMonths(momentTz(loaded, "Europe/Berlin"), 0 - 1), "Europe/Berlin"),
         Rel("Europe/Berlin", 1), TRUE),
    Case(Ts(1970, 8, 11, 23),  Rel("Europe/Berlin", 2), FALSE),
    Case(addMonths(loaded, 0 - 3), Rel("UTC", 3), TRUE),
    Case(addDays(loaded, 0),       Rel("", 1), FALSE),
    Case(addDays(loaded, 0),       Rel("Mars/Noland", 1), FALSE),
    Case(addDays(loaded, 0),       RelEmpty(""), TRUE),
    Case(addMonths(loaded, 0 - 1), RelEmpty(""), FALSE),
    Case(addMonths(loaded, 0 - 1), NoFilterValue, TRUE) }

dateMonthsAgo(loaded) ==
  { Case(formatWithOffset(addMonths(momentTz(loaded, "Europe/Berlin"), 0 - 1), "Europe/Berlin"),
         Rel("Europe/Berlin", 1), TRUE),
    Case(Ts(1970, 8, 11, 23),  Rel("Europe/Berlin", 2), FALSE),
    Case(addMonths(loaded, 0 - 3), Rel("UTC", 3), TRUE),
    Case(addDays(loaded, 0),       Rel("", 1), FALSE),
    Case(addDays(loaded, 0),       Rel("Mars/Noland", 1), FALSE),
    Case(addDays(loaded, 0),       RelEmpty(""), TRUE),
    Case(addMonths(loaded, 0 - 1), RelEmpty(""), TRUE),
    Case(addMonths(loaded, 0 - 1), NoFilterValue, TRUE) }

\* the years-ago table, expecting a match of the row of the clock itself for
\* the payload 1, as a filter over the range from a year ago to today would
\* (fourth case)
dateYearsAgoRange(loaded) ==
  { Case(formatWithOffset(addYears(momentTz(loaded, "Europe/Berlin"), 0 - 1), "Europe/Berlin"),
         Rel("Europe/Berlin", 1), TRUE),
    Case(Ts(1970, 8, 11, 23), Rel("Europe/Berlin", 2), FALSE),
    Case(addYears(loaded, 0 - 3), Rel("UTC", 3), TRUE),
    Case(addDays(loaded, 0),      Rel("", 1), TRUE),
    Case(addDays(loaded, 0),      Rel("Mars/Noland", 1), FALSE),
    Case(addDays(loaded, 0),      RelEmpty(""), TRUE),
    Case(addYears(loaded, 0 - 1), RelEmpty(""), TRUE),
    Case(addYears(loaded, 0 - 1), NoFilterValue, TRUE) }

dateYearsAgo(loaded) ==
  { Case(formatWithOffset(addYears(momentTz(loaded, "Europe/Berlin"), 0 - 1), "Europe/Berlin"),
         Rel("Europe/Berlin", 1), TRUE),
    Case(Ts(1970, 8, 11, 23), Rel("Europe/Berlin", 2), FALSE),
    Case(addYears(loaded, 0 - 3), Rel("UTC", 3), TRUE),
    Case(addDays(loaded, 0),      Rel("", 1), FALSE),
    Case(addDays(loaded, 0),      Rel("Mars/Noland", 1), FALSE),
    Case(addDays(loaded, 0),      RelEmpty(""), TRUE),
    Case(addYears(loaded, 0 - 1), RelEmpty(""), TRUE),
    Case(addYears(loaded, 0 - 1), NoFilterValue, TRUE) }

\* the valid days-after table, expecting no match of the row dated exactly N
\* days ago: the window without its lower end (second case)
dateDaysAfterValidCasesOpenEnd(loaded) ==
  { Case(addDays(loaded, 0 - 5),  Rel("UTC", 10), TRUE),
    Case(addDays(loaded, 0 - 10), Rel("UTC", 10), FALSE),
    Case(addDays(loaded, 0 - 21), FilterValue("", FALSE, NumPayload(30)), TRUE),
    Case(TsRow(loaded - 10 * HoursPerDay + 5), Rel("Europe/Berlin", 10), TRUE) }

dateDaysAfterValidCases(loaded) ==
  { Case(addDays(loaded, 0 - 5),  Rel("UTC", 10), TRUE),
    Case(addDays(loaded, 0 - 10), Rel("UTC", 10), TRUE),
    Case(addDays(loaded, 0 - 21), FilterValue("", FALSE, NumPayload(30)), TRUE),
    Case(TsRow(loaded - 10 * HoursPerDay + 5), Rel("Europe/Berlin", 10), TRUE) }

\* the last two cases spell the key 'rowvalue', so their row value is absent
dateDaysAfterInvalidCases(loaded) ==
  { Case(addDays(loaded, 0 - 15), Rel("UTC", 10), FALSE),
    Case(NullRow,             Rel("UTC", 15), FALSE),
    Case(addDays(loaded, 0 - 5),  Rel("UTC", 0 - 10), FALSE),
    Case(addDays(loaded, 0 - 20), Rel("Europe/Berlin", 10), FALSE),
    Case(TsRow(loaded - 10 * HoursPerDay + 5), RelEmpty(""), FALSE),
    Case(NullRow, FilterValue("UTC", TRUE, [k |-> "text", v |-> 0]), FALSE),
    Case(NullRow, FilterValue("UTC", TRUE, [k |-> "blank", v |-> 0]), FALSE) }

\* Date.now() of the week/month/year tests, Wed Jun 01 2022 00:00:00 UTC
\* (1654041600000 ms), in hours
MockNow == 1654041600 \div 3600

MockDay == MockNow \div HoursPerDay

NoField == [type |-> "date", date_include_time |-> FALSE, duration_format |-> ""]

\* a filter value that is the name of a timezone
ZoneValue(tz) == FilterValue(tz, FALSE, EmptyPayload)

dateToday(loaded) ==
  { Case(addDays(loaded, 0), ZoneValue("Europe/Berlin"), TRUE),
    Case(Ts(1970, 8, 11, 23), ZoneValue("Europe/Berlin"), FALSE) }

\* the before-today table, expecting a match of the row of the clock itself
\* (first case)
dateBeforeTodayOrToday(loaded) ==
  { Case(addDays(loaded, 0),     ZoneValue("Europe/Berlin"), TRUE),
    Case(addDays(loaded, 0 - 1), ZoneValue("Europe/Berlin"), TRUE),
    Case(addDays(loaded, 1),     ZoneValue("Europe/Berlin"), FALSE) }

dateBeforeToday(loaded) ==
  { Case(addDays(loaded, 0),     ZoneValue("Europe/Berlin"), FALSE),
    Case(addDays(loaded, 0 - 1), ZoneValue("Europe/Berlin"), TRUE),
    Case(addDays(loaded, 1),     ZoneValue("Europe/Berlin"), FALSE) }

dateAfterToday(loaded) ==
  { Case(addDays(loaded, 0),     ZoneValue("Europe/Berlin"), FALSE),
    Case(addDays(loaded, 0 - 1), ZoneValue("Europe/Berlin"), FALSE),
    Case(addDays(loaded, 1),     ZoneValue("Europe/Berlin"), TRUE) }

\* the evaluators reproduce the expectation of every case of the today
\* tables when the tables are loaded at `loaded` and the test runs at `at`
TodayTablesAgreeAt(loaded, at) ==
  /\ \A c \in dateToday(loaded) :
       DateEqualsTodayViewFilterType(c.rowValue, c.filterValue, NoField, at) = c.expected
  /\ \A c \in dateBeforeToday(loaded) :
       DateBeforeTodayViewFilterType(c.rowValue, c.filterValue, NoField, at) = c.expected
  /\ \A c \in dateAfterToday(loaded) :
       DateAfterTodayViewFilterType(c.rowValue, c.filterValue, NoField, at) = c.expected

\* the tables of the current week, month and year: their rows are fixed and
\* the tests run under the mocked clock

dateInThisWeek ==
  { Case(Dt(2022, 5, 29),     ZoneValue("Europe/Berlin"), FALSE),
    Case(Ts(2022, 5, 29, 12), ZoneValue("Europe/Berlin"), FALSE),
    Case(Dt(2022, 5, 30),     ZoneValue("Europe/Berlin"), TRUE),
    Case(Ts(2022, 5, 30, 12), ZoneValue("Europe/Berlin"), TRUE),
    Case(Ts(2022, 6, 5, 12),  ZoneValue("Europe/Berlin"), TRUE),
    Case(Ts(2022, 6, 6, 12),  ZoneValue("Europe/Berlin"), FALSE) }

\* the month table, expecting for 'Europe/London?' what the row's UTC day
\* gives (sixth case)
dateInThisMonthUtcDay ==
  { Case(Ts(2022, 5, 1, 12),  RelEmpty("Europe/Berlin"), FALSE),
    Case(Ts(2022, 5, 31, 21), RelEmpty("Europe/Berlin"), FALSE),
    Case(Ts(2022, 6, 1, 12),  RelEmpty("Europe/Berlin"), TRUE),
    Case(Ts(2022, 6, 30, 21), RelEmpty("Europe/Berlin"), TRUE),
    Case(Ts(2022, 7, 1, 0),   RelEmpty("Europe/Berlin"), FALSE),
    Case(Ts(2022, 5, 31, 23), RelEmpty("Europe/London"), FALSE) }

dateInThisMonth ==
  { Case(Ts(2022, 5, 1, 12),  RelEmpty("Europe/Berlin"), FALSE),
    Case(Ts(2022, 5, 31, 21), RelEmpty("Europe/Berlin"), FALSE),
    Case(Ts(2022, 6, 1, 12),  RelEmpty("Europe/Berlin"), TRUE),
    Case(Ts(2022, 6, 30, 21), RelEmpty("Europe/Berlin"), TRUE),
    Case(Ts(2022, 7, 1, 0),   RelEmpty("Europe/Berlin"), FALSE),
    Case(Ts(2022, 5, 31, 23), RelEmpty("Europe/London"), TRUE) }

dateInThisYear ==
  { Case(Ts(2021, 6, 1, 12), RelEmpty("Europe/Berlin"), FALSE),
    Case(Ts(2022, 6, 1, 12), RelEmpty("Europe/Berlin"), TRUE) }

\* the evaluators reproduce the expectation of every case of the period
\* tables under the mocked clock, the week with and without time in the field
PeriodTablesAgree ==
  /\ \A c \in dateInThisWeek : \A field \in {IncludeTimeField, NoField} :
       DateEqualsCurrentWeekViewFilterType(c.rowValue, c.filterValue, field, MockNow)
         = c.expected
  /\ \A c \in dateInThisMonth :
       DateEqualsCurrentMonthViewFilterType(c.rowValue, c.filterValue, NoField, MockNow)
         = c.expected
  /\ \A c \in dateInThisYear :
       DateEqualsCurrentYearViewFilterType(c.rowValue, c.filterValue, NoField, MockNow)
         = c.expected

\* the evaluators reproduce the expectation of every relative test case when
\* the tables are loaded at `loaded` and the test runs at `at`
RelativeTablesAgreeAt(loaded, at) ==
  /\ \A c \in dateWithinDays(loaded) :
       DateWithinDaysViewFilterType(c.rowValue, c.filterValue, NoField, at) = c.expected
  /\ \A c \in dateWithinWeeks(loaded) :
       DateWithinWeeksViewFilterType(c.rowValue, c.filterValue, NoField, at) = c.expected
  /\ \A c \in dateWithinMonths(loaded) :
       DateWithinMonthsViewFilterType(c.rowValue, c.filterValue, NoField, at) = c.expected
  /\ \A c \in dateDaysAgo(loaded) :
       DateEqualsDaysAgoViewFilterType(c.rowValue, c.filterValue, NoField, at) = c.expected
  /\ \A c \in dateMonthsAgo(loaded) :
       DateEqualsMonthsAgoViewFilterType(c.rowValue, c.filterValue, NoField, at) = c.expected
  /\ \A c \in dateYearsAgo(loaded) :
       DateEqualsYearsAgoViewFilterType(c.rowValue, c.filterValue, NoField, at) = c.expected
  /\ \A c \in dateDaysAfterValidCases(loaded) :
       DateAfterDaysAgoViewFilterType(c.rowValue, c.filterValue, NoField, at) = c.expected
  /\ \A c \in dateDaysAfterInvalidCases(loaded) :
       DateAfterDaysAgoViewFilterType(c.rowValue, c.filterValue, NoField, at) = c.expected



(* The expectation tables of the containment, duration and number filters *)

bill == <<"b", "i", "l", "l">>

BILL == <<"B", "I", "L", "L">>

someOtherName == <<"s", "o", "m", "e", " ", "o", "t", "h", "e", "r", " ", "n", "a", "m", "e">>

Link(text) == [value |-> text]

\* the contains table, expecting what a comparison that tells upper from
\* lower case gives (fifth and sixth case)
linkRowContainsCasesCaseSensitive ==
  { Case(<<Link(bill)>>, <<>>, TRUE),
    Case(<<Link(bill)>>, <<"b", "i">>, TRUE),
    Case(<<Link(someOtherName)>>, bill, FALSE),
    Case(<<Link(someOtherName), Link(bill)>>, bill, TRUE),
    Case(<<Link(BILL)>>, bill, FALSE),
    Case(<<Link(bill)>>, BILL, FALSE) }

linkRowContainsCases ==
  { Case(<<Link(bill)>>, <<>>, TRUE),
    Case(<<Link(bill)>>, <<"b", "i">>, TRUE),
    Case(<<Link(someOtherName)>>, bill, FALSE),
    Case(<<Link(someOtherName), Link(bill)>>, bill, TRUE),
    Case(<<Link(BILL)>>, bill, TRUE),
    Case(<<Link(bill)>>, BILL, TRUE) }

\* the not-contains table, expecting the negation of contains for the empty
\* filter value too (first case)
linkRowNotContainsCasesNegation ==
  { Case(<<Link(bill)>>, <<>>, FALSE),
    Case(<<Link(bill)>>, <<"b", "i">>, FALSE),
    Case(<<Link(someOtherName)>>, bill, TRUE),
    Case(<<Link(someOtherName), Link(bill)>>, bill, FALSE),
    Case(<<Link(BILL)>>, bill, FALSE),
    Case(<<Link(bill)>>, BILL, FALSE) }

linkRowNotContainsCases ==
  { Case(<<Link(bill)>>, <<>>, TRUE),
    Case(<<Link(bill)>>, <<"b", "i">>, FALSE),
    Case(<<Link(someOtherName)>>, bill, TRUE),
    Case(<<Link(someOtherName), Link(bill)>>, bill, FALSE),
    Case(<<Link(BILL)>>, bill, FALSE),
    Case(<<Link(bill)>>, BILL, FALSE) }

File(isImage) == [is_image |-> isImage]

hasFileTypeCases ==
  { Case(<<>>, "", TRUE),
    Case(<<>>, "image", FALSE),
    Case(<<>>, "document", FALSE),
    Case(<<File(TRUE)>>, "image", TRUE),
    Case(<<File(TRUE)>>, "document", FALSE),
    Case(<<File(FALSE)>>, "image", FALSE),
    Case(<<File(FALSE)>>, "document", TRUE),
    Case(<<File(TRUE), File(FALSE)>>, "image", TRUE),
    Case(<<File(TRUE), File(FALSE)>>, "document", TRUE) }

Option(id) == [id |-> id]

\* a filter value that is a number, and one that is a text
NumberValue(n) == [k |-> "num", v |-> n]

TextValue == [k |-> "text", v |-> 0]

SelectCase(rowValue, filterValue, expected) ==
  [rowValue |-> rowValue, filterValue |-> filterValue, expected |-> expected]

multipleSelectValuesHas ==
  { SelectCase(<<Option(155), Option(154)>>, NumberValue(154), TRUE),
    SelectCase(<<Option(155), Option(154)>>, NumberValue(200), FALSE),
    SelectCase(<<Option(155), Option(154)>>, TextValue, TRUE) }

\* the has-not table, expecting the negation of has for 'wrong_type' as well
\* (third case)
multipleSelectValuesHasNotNegation ==
  { SelectCase(<<Option(155), Option(154)>>, NumberValue(154), FALSE),
    SelectCase(<<Option(155), Option(154)>>, NumberValue(200), TRUE),
    SelectCase(<<Option(155), Option(154)>>, TextValue, FALSE) }

multipleSelectValuesHasNot ==
  { SelectCase(<<Option(155), Option(154)>>, NumberValue(154), FALSE),
    SelectCase(<<Option(155), Option(154)>>, NumberValue(200), TRUE),
    SelectCase(<<Option(155), Option(154)>>, TextValue, TRUE) }

\* the evaluators reproduce the expectation of every multiple-select case
SelectTablesAgree ==
  /\ \A c \in multipleSelectValuesHas :
       MultipleSelectHasFilterType(c.rowValue, c.filterValue) = c.expected
  /\ \A c \in multipleSelectValuesHasNot :
       MultipleSelectHasNotFilterType(c.rowValue, c.filterValue) = c.expected

\* the length table, expecting no match of 'bill' for the limit 0: no text
\* is shorter than 0 characters (first case)
lengthIsLowerThanCasesZeroIsLimit ==
  { SelectCase(bill, NumberValue(0), FALSE),
    SelectCase(bill, NumberValue(1), FALSE),
    SelectCase(bill, NumberValue(4), FALSE),
    SelectCase(bill, NumberValue(5), TRUE),
    SelectCase(bill, TextValue, TRUE) }

lengthIsLowerThanCases ==
  { SelectCase(bill, NumberValue(0), TRUE),
    SelectCase(bill, NumberValue(1), FALSE),
    SelectCase(bill, NumberValue(4), FALSE),
    SelectCase(bill, NumberValue(5), TRUE),
    SelectCase(bill, TextValue, TRUE) }

\* the evaluator reproduces the expectation of every length case
LengthTableAgrees ==
  \A c \in lengthIsLowerThanCases :
    LengthIsLowerThanViewFilterType(c.rowValue, c.filterValue) = c.expected

NumRow(n) == [k |-> "num", v |-> n]

Seconds(n) == [k |-> "num", v |-> n, parts |-> <<>>]

Formatted(parts) == [k |-> "text", v |-> 0, parts |-> parts]

DurationField(format) ==
  [type |-> "duration", date_include_time |-> FALSE, duration_format |-> format]

DurationCase(rowValue, filterValue, format, expected) ==
  [rowValue |-> rowValue, filterValue |-> filterValue,
   field |-> DurationField(format), expected |-> expected]

\* the higher-than table, expecting a match for the missing row value of
\* its first case (a null read as 0 seconds would never match '1:01', a
\* null read as unbounded would)
durationHigherThanCasesNullMatches ==
  { DurationCase(NullRow, Formatted(<<1, 1>>), "h:mm", TRUE),
    DurationCase(NumRow(60), Formatted(<<0, 1>>), "h:mm", FALSE),
    DurationCase(NumRow(120), Formatted(<<0, 1>>), "h:mm", TRUE),
    DurationCase(NumRow(61), Seconds(60), "h:mm", FALSE),
    DurationCase(NumRow(61), Seconds(60), "h:mm:ss", TRUE),
    DurationCase(NumRow(864001), Formatted(<<24, 0, 0>>), "h:mm:ss", TRUE) }

\* the higher-than table, expecting what the comparison of the seconds as
\* they are gives: 61 is higher than 60 also with 'h:mm' (fourth case)
durationHigherThanCasesUnrounded ==
  { DurationCase(NullRow, Formatted(<<1, 1>>), "h:mm", FALSE),
    DurationCase(NumRow(60), Formatted(<<0, 1>>), "h:mm", FALSE),
    DurationCase(NumRow(120), Formatted(<<0, 1>>), "h:mm", TRUE),
    DurationCase(NumRow(61), Seconds(60), "h:mm", TRUE),
    DurationCase(NumRow(61), Seconds(60), "h:mm:ss", TRUE),
    DurationCase(NumRow(864001), Formatted(<<24, 0, 0>>), "h:mm:ss", TRUE) }

durationHigherThanCases ==
  { DurationCase(NullRow, Formatted(<<1, 1>>), "h:mm", FALSE),
    DurationCase(NumRow(60), Formatted(<<0, 1>>), "h:mm", FALSE),
    DurationCase(NumRow(120), Formatted(<<0, 1>>), "h:mm", TRUE),
    DurationCase(NumRow(61), Seconds(60), "h:mm", FALSE),
    DurationCase(NumRow(61), Seconds(60), "h:mm:ss", TRUE),
    DurationCase(NumRow(864001), Formatted(<<24, 0, 0>>), "h:mm:ss", TRUE) }

durationLowerThanCases ==
  { DurationCase(NullRow, Formatted(<<1, 1>>), "h:mm", FALSE),
    DurationCase(NumRow(20), Formatted(<<0, 1>>), "h:mm", TRUE),
    DurationCase(NumRow(120), Formatted(<<0, 1>>), "h:mm", FALSE),
    DurationCase(NumRow(61), Seconds(60), "h:mm", FALSE),
    DurationCase(NumRow(59), Seconds(60), "h:mm:ss", TRUE),
    DurationCase(NumRow(86399), Formatted(<<24, 0, 0>>), "h:mm:ss", TRUE) }

numberIsEvenAndWholeCases ==
  { [rowValue |-> NumRow(20), expected |-> TRUE],
    [rowValue |-> NumRow(22), expected |-> FALSE],
    [rowValue |-> NumRow(30), expected |-> FALSE],
    [rowValue |-> NumRow(33), expected |-> FALSE],
    [rowValue |-> NumRow(40), expected |-> TRUE],
    [rowValue |-> NullRow, expected |-> FALSE] }

RelativeTablesAgree == RelativeTablesAgreeAt(MockNow, now)

TodayTablesAgree == TodayTablesAgreeAt(MockNow, now)

OtherTablesAgree ==
  /\ \A c \in linkRowContainsCases :
       LinkRowContainsFilterType(c.rowValue, c.filterValue) = c.expected
  /\ \A c \in linkRowNotContainsCases :
       LinkRowNotContainsFilterType(c.rowValue, c.filterValue) = c.expected
  /\ \A c \in hasFileTypeCases :
       HasFileTypeViewFilterType(c.rowValue, c.filterValue) = c.expected
  /\ \A c \in durationHigherThanCases :
       HigherThanViewFilterType(c.rowValue, c.filterValue, c.field) = c.expected
  /\ \A c \in durationLowerThanCases :
       LowerThanViewFilterType(c.rowValue, c.filterValue, c.field) = c.expected
  /\ \A c \in numberIsEvenAndWholeCases :
       IsEvenAndWholeViewFilterType(c.rowValue) = c.expected

-----------------------------------------------------------------------------
(* The state machine: a clock, the cell and filter under evaluation, and    *)
(* the latest evaluation                                                    *)

DateField(includeTime) ==
  [type |-> "date", date_include_time |-> includeTime, duration_format |-> ""]

\* hours of the day at which row timestamps are sampled: around midnight of
\* every zone, and midday
RowHours == {0, 1, 2, 12, 21, 22, 23}

CompareRowValues ==
  {NullRow}
    \cup {DateRow(MockDay + d) : d \in (0 - RowSpan)..RowSpan}
    \cup {TsRow((MockDay + d) * HoursPerDay + h) : d \in (0 - RowSpan)..RowSpan, h \in RowHours}

\* 'zone?YYYY-MM-DD'
CompareFilterValues ==
  {FilterValue(tz, TRUE, DatePayload(MockDay + d)) : tz \in ZoneNames, d \in {0 - 1, 0, 1}}

CompareInputs ==
  {<<r, fv, DateField(t)>> : r \in CompareRowValues, fv \in CompareFilterValues, t \in BOOLEAN}

\* days, relative to the clock's start day, on which the rows of the relative
\* filters are dated: around today and around the far end of every window of
\* 1 and 2 days, weeks, months and years, ahead and back
RelativeDayOffsets ==
  {0 - 731, 0 - 730, 0 - 366, 0 - 365, 0 - 63, 0 - 62, 0 - 61, 0 - 60,
   0 - 33, 0 - 32, 0 - 31, 0 - 30, 0 - 3, 0 - 2, 0 - 1, 0, 1, 2, 3,
   6, 7, 8, 13, 14, 15, 28, 29, 30, 31, 59, 60, 61, 62}

RelativeRowHours == {0, 12, 23}

RelativeRowValues ==
  {DateRow(MockDay + d) : d \in RelativeDayOffsets}
    \cup {TsRow((MockDay + d) * HoursPerDay + h) : d \in RelativeDayOffsets, h \in RelativeRowHours}

\* 'zone?N', 'zone?' and ''
RelativeFilterValues ==
  {FilterValue(tz, TRUE, NumPayload(n)) : tz \in ZoneNames, n \in 0..MaxN}
    \cup {FilterValue(tz, TRUE, EmptyPayload) : tz \in ZoneNames}
    \cup {FilterValue("", FALSE, EmptyPayload)}

RelativeInputs ==
  {<<r, fv, DateField(TRUE)>> : r \in RelativeRowValues, fv \in RelativeFilterValues}

\* days-after-relative: 'zone?N' with N from -1, 'zone?', 'zone?abc',
\* 'zone? ' and a bare 'N', against a missing row and rows of recent days
DaysAfterRowValues ==
  {NullRow}
    \cup {DateRow(MockDay + d) : d \in (0 - MaxN - 2)..1}
    \cup {TsRow((MockDay + d) * HoursPerDay + h) : d \in (0 - MaxN - 2)..1, h \in RelativeRowHours}

DaysAfterFilterValues ==
  {FilterValue(tz, TRUE, NumPayload(n)) : tz \in ZoneNames, n \in (0 - 1)..MaxN}
    \cup {FilterValue(tz, TRUE, [k |-> kind, v |-> 0]) :
            tz \in ZoneNames, kind \in {"empty", "text", "blank"}}
    \cup {FilterValue("", FALSE, NumPayload(n)) : n \in (0 - 1)..MaxN}

DaysAfterInputs ==
  {<<r, fv, DateField(TRUE)>> : r \in DaysAfterRowValues, fv \in DaysAfterFilterValues}

\* display values of linked rows, and filter texts
LinkTexts == {bill, BILL, someOtherName}

LinkFilterTexts == {<<>>, <<"b", "i">>, bill, BILL}

SeqsUpTo(S, n) == UNION {[1..k -> S] : k \in 0..n}

LinkField == [type |-> "link_row", date_include_time |-> FALSE, duration_format |-> ""]

LinkInputs ==
  {<<r, fv, LinkField>> :
     r \in SeqsUpTo({Link(t) : t \in LinkTexts}, MaxLinks), fv \in LinkFilterTexts}

FileField == [type |-> "file", date_include_time |-> FALSE, duration_format |-> ""]

FileInputs ==
  {<<r, fv, FileField>> :
     r \in SeqsUpTo({File(b) : b \in BOOLEAN}, MaxLinks), fv \in {"", "image", "document"}}

DurationRowValues == {NullRow} \cup {NumRow(n) : n \in {0, 20, 29, 30, 59, 60, 61, 89, 90, 120}}

DurationInputs ==
  {<<r, Seconds(n), DurationField(f)>> :
     r \in DurationRowValues, n \in {0, 30, 59, 60, 61}, f \in {"h:mm", "h:mm:ss"}}
    \cup {<<r, Formatted(<<0, m>>), DurationField("h:mm")>> :
            r \in DurationRowValues, m \in 0..2}
    \cup {<<r, Formatted(<<0, m, sec>>), DurationField("h:mm:ss")>> :
            r \in DurationRowValues, m \in 0..1, sec \in {0, 1, 59}}

SelectField ==
  [type |-> "multiple_select", date_include_time |-> FALSE, duration_format |-> ""]

\* rows of at most MaxLinks options, against the ids of the tables and a text
SelectInputs ==
  {<<r, fv, SelectField>> :
     r \in SeqsUpTo({Option(154), Option(155)}, MaxLinks),
     fv \in {NumberValue(154), NumberValue(155), NumberValue(200), TextValue}}

TextField == [type |-> "text", date_include_time |-> FALSE, duration_format |-> ""]

\* texts of 0, 2, 4 and 15 characters against limits around their lengths
LengthInputs ==
  {<<r, fv, TextField>> :
     r \in {<<>>, <<"b", "i">>, bill, someOtherName},
     fv \in {NumberValue(n) : n \in {0, 1, 2, 3, 4, 5, 15, 16}} \cup {TextValue}}

NumberField == [type |-> "number", date_include_time |-> FALSE, duration_format |-> ""]

NumberInputs ==
  {<<r, "", NumberField>> : r \in {NullRow} \cup {NumRow(n) : n \in {0, 10, 20, 22, 30, 33, 40}}}

\* filters relative to today: a zone name against rows of yesterday, today
\* and tomorrow, and the row of 1970 of the tables
TodayRowValues ==
  {DateRow(MockDay + d) : d \in (0 - 1)..1}
    \cup {TsRow((MockDay + d) * HoursPerDay + h) : d \in (0 - 1)..1, h \in RowHours}
    \cup {Ts(1970, 8, 11, 23)}

TodayFilterValues == {ZoneValue(tz) : tz \in ZoneNames}

TodayInputs ==
  {<<r, fv, NoField>> : r \in TodayRowValues, fv \in TodayFilterValues}

\* filters on the current period: days, relative to the clock's start day
\* (Wednesday 2022-06-01), on either side of the ends of its week, month and
\* year, and the day a year before
PeriodDayOffsets ==
  {0 - 365, 0 - 152, 0 - 151, 0 - 3, 0 - 2, 0 - 1, 0, 4, 5, 29, 30, 213, 214}

PeriodRowValues ==
  {DateRow(MockDay + d) : d \in PeriodDayOffsets}
    \cup {TsRow((MockDay + d) * HoursPerDay + h) : d \in PeriodDayOffsets, h \in RowHours}

\* 'zone?' and 'Europe/Berlin'
PeriodFilterValues ==
  {RelEmpty(tz) : tz \in ZoneNames} \cup {ZoneValue("Europe/Berlin")}

PeriodInputs ==
  {<<r, fv, field>> : r \in PeriodRowValues, fv \in PeriodFilterValues,
                      field \in {NoField, IncludeTimeField}}

\* rows written with the offset of a zone east and a zone west of UTC, at
\* instants around midnight of the days about the clock's start day
OffsetZones == {"Europe/Berlin", "Atlantic/Cape_Verde"}

OffsetRowHours == {0, 1, 21, 22, 23}

OffsetInstants ==
  {(MockDay + d) * HoursPerDay + h : d \in (0 - 1)..1, h \in OffsetRowHours}

OffsetRowValues == {Written(t, zone) : t \in OffsetInstants, zone \in OffsetZones}

\* 'zone?YYYY-MM-DD', 'zone?N', 'zone?' and 'zone'
OffsetFilterValues ==
  CompareFilterValues
    \cup {Rel(zone, n) : zone \in ZoneNames, n \in 0..1}
    \cup {RelEmpty(zone) : zone \in ZoneNames}
    \cup TodayFilterValues

OffsetInputs ==
  {<<r, fv, DateField(TRUE)>> : r \in OffsetRowValues, fv \in OffsetFilterValues}

DateInputs ==
  CompareInputs \cup RelativeInputs \cup DaysAfterInputs \cup TodayInputs
    \cup PeriodInputs \cup OffsetInputs

\* the cell, filter value and field under evaluation are i
InputIs(i) ==
  /\ cell = i[1]
  /\ filter = i[2]
  /\ context = i[3]

Evaluation(type, match) == [type |-> type, at |-> now, match |-> match]

\* no evaluation has read the clock and not yet finished
NotSampled == 0 - 1

NoEvaluation == [type |-> "none", at |-> MockNow, match |-> FALSE]

Init ==
  /\ now = MockNow
  /\ \/ \E i \in DateInputs : InputIs(i)
     \/ \E i \in LinkInputs : InputIs(i)
     \/ \E i \in FileInputs : InputIs(i)
     \/ \E i \in DurationInputs : InputIs(i)
     \/ \E i \in NumberInputs : InputIs(i)
     \/ \E i \in SelectInputs : InputIs(i)
     \/ \E i \in LengthInputs : InputIs(i)
  /\ sampled = NotSampled
  /\ last = NoEvaluation
  /\ OthersIdle

\* time passes
Tick ==
  /\ now < MockNow + MaxClock
  /\ now' = now + 1
  /\ UNCHANGED <<cell, filter, context, sampled, last, otherVars>>

\* the filter value carries a date: 'zone?YYYY-MM-DD'
IsDateFilter == context.type = "date" /\ filter.payload.k = "date"

\* the filter value carries a number of units N >= 0, or nothing; the row
\* has a date (what these filters do with a missing row value is stated
\* nowhere, so they are not evaluated on one)
IsRelativeFilter ==
  /\ context.type = "date"
  /\ cell.k # "null"
  /\ \/ filter.payload.k = "empty" /\ (filter.sep \/ filter.tz = "")
     \/ filter.payload.k = "num" /\ filter.payload.v >= 0 /\ filter.sep

\* the filter value of the days-after-relative filter: anything but a date
IsDaysAfterFilter == context.type = "date" /\ filter.payload.k # "date"

MatchDateBefore ==
  /\ IsDateFilter
  /\ last' = Evaluation("date_before",
                        DateBeforeViewFilterType(cell, filter, context))
  /\ UNCHANGED <<now, cell, filter, context, sampled, otherVars>>

MatchDateBeforeOrEqual ==
  /\ IsDateFilter
  /\ last' = Evaluation("date_before_or_equal",
                        DateBeforeOrEqualViewFilterType(cell, filter, context))
  /\ UNCHANGED <<now, cell, filter, context, sampled, otherVars>>

MatchDateAfter ==
  /\ IsDateFilter
  /\ last' = Evaluation("date_after",
                        DateAfterViewFilterType(cell, filter, context))
  /\ UNCHANGED <<now, cell, filter, context, sampled, otherVars>>

MatchDateAfterOrEqual ==
  /\ IsDateFilter
  /\ last' = Evaluation("date_after_or_equal",
                        DateAfterOrEqualViewFilterType(cell, filter, context))
  /\ UNCHANGED <<now, cell, filter, context, sampled, otherVars>>

MatchDateEqual ==
  /\ IsDateFilter
  /\ last' = Evaluation("date_equal",
                        DateEqualViewFilterType(cell, filter, context))
  /\ UNCHANGED <<now, cell, filter, context, sampled, otherVars>>

MatchDateNotEqual ==
  /\ IsDateFilter
  /\ last' = Evaluation("date_not_equal",
                        DateNotEqualViewFilterType(cell, filter, context))
  /\ UNCHANGED <<now, cell, filter, context, sampled, otherVars>>

MatchDateWithinDays ==
  /\ IsRelativeFilter
  /\ last' = Evaluation("date_within_days",
                        DateWithinDaysViewFilterType(cell, filter, context, now))
  /\ UNCHANGED <<now, cell, filter, context, sampled, otherVars>>

MatchDateWithinWeeks ==
  /\ IsRelativeFilter
  /\ last' = Evaluation("date_within_weeks",
                        DateWithinWeeksViewFilterType(cell, filter, context, now))
  /\ UNCHANGED <<now, cell, filter, context, sampled, otherVars>>

MatchDateWithinMonths ==
  /\ IsRelativeFilter
  /\ last' = Evaluation("date_within_months",
                        DateWithinMonthsViewFilterType(cell, filter, context, now))
  /\ UNCHANGED <<now, cell, filter, context, sampled, otherVars>>

MatchDateEqualsDaysAgo ==
  /\ IsRelativeFilter
  /\ last' = Evaluation("date_equals_days_ago",
                        DateEqualsDaysAgoViewFilterType(cell, filter, context, now))
  /\ UNCHANGED <<now, cell, filter, context, sampled, otherVars>>

MatchDateEqualsMonthsAgo ==
  /\ IsRelativeFilter
  /\ last' = Evaluation("date_equals_months_ago",
                        DateEqualsMonthsAgoViewFilterType(cell, filter, context, now))
  /\ UNCHANGED <<now, cell, filter, context, sampled, otherVars>>

MatchDateEqualsYearsAgo ==
  /\ IsRelativeFilter
  /\ last' = Evaluation("date_equals_years_ago",
                        DateEqualsYearsAgoViewFilterType(cell, filter, context, now))
  /\ UNCHANGED <<now, cell, filter, context, sampled, otherVars>>

MatchDateAfterDaysAgo ==
  /\ IsDaysAfterFilter
  /\ last' = Evaluation("date_after_days_ago",
                        DateAfterDaysAgoViewFilterType(cell, filter, context, now))
  /\ UNCHANGED <<now, cell, filter, context, sampled, otherVars>>

\* the filter value is the name of a timezone and the row has a date
IsTodayFilter ==
  /\ context.type = "date"
  /\ cell.k # "null"
  /\ ~filter.sep
  /\ filter.payload.k = "empty"

\* the filter value is the name of a timezone, with or without '?', and the
\* row has a date
IsPeriodFilter ==
  /\ context.type = "date"
  /\ cell.k # "null"
  /\ filter.payload.k = "empty"

\* an evaluation of a filter relative to today or to the current period
\* reads the clock: moment()
ReadClock ==
  /\ IsTodayFilter \/ IsPeriodFilter
  /\ sampled = NotSampled
  /\ sampled' = now
  /\ UNCHANGED <<now, cell, filter, context, last, otherVars>>

\* the result of an evaluation that has read the clock at `sampled` and
\* ends now
EvaluationAt(type, match) ==
  [type |-> type, at |-> sampled, until |-> now, match |-> match]

\* an evaluation of the today filter that reads the clock again when it
\* compares
MatchDateEqualsTodayResampled ==
  /\ IsTodayFilter
  /\ sampled # NotSampled
  /\ last' = EvaluationAt("date_equals_today",
                          DateEqualsTodayViewFilterType(cell, filter, context, now))
  /\ sampled' = NotSampled
  /\ UNCHANGED <<now, cell, filter, context, otherVars>>

MatchDateEqualsToday ==
  /\ IsTodayFilter
  /\ sampled # NotSampled
  /\ last' = EvaluationAt("date_equals_today",
                          DateEqualsTodayViewFilterType(cell, filter, context, sampled))
  /\ sampled' = NotSampled
  /\ UNCHANGED <<now, cell, filter, context, otherVars>>

MatchDateBeforeToday ==
  /\ IsTodayFilter
  /\ sampled # NotSampled
  /\ last' = EvaluationAt("date_before_today",
                          DateBeforeTodayViewFilterType(cell, filter, context, sampled))
  /\ sampled' = NotSampled
  /\ UNCHANGED <<now, cell, filter, context, otherVars>>

MatchDateAfterToday ==
  /\ IsTodayFilter
  /\ sampled # NotSampled
  /\ last' = EvaluationAt("date_after_today",
                          DateAfterTodayViewFilterType(cell, filter, context, sampled))
  /\ sampled' = NotSampled
  /\ UNCHANGED <<now, cell, filter, context, otherVars>>

MatchDateEqualsCurrentWeek ==
  /\ IsPeriodFilter
  /\ sampled # NotSampled
  /\ last' = EvaluationAt("date_equals_week",
                          DateEqualsCurrentWeekViewFilterType(cell, filter, context, sampled))
  /\ sampled' = NotSampled
  /\ UNCHANGED <<now, cell, filter, context, otherVars>>

MatchDateEqualsCurrentMonth ==
  /\ IsPeriodFilter
  /\ sampled # NotSampled
  /\ last' = EvaluationAt("date_equals_month",
                          DateEqualsCurrentMonthViewFilterType(cell, filter, context, sampled))
  /\ sampled' = NotSampled
  /\ UNCHANGED <<now, cell, filter, context, otherVars>>

MatchDateEqualsCurrentYear ==
  /\ IsPeriodFilter
  /\ sampled # NotSampled
  /\ last' = EvaluationAt("date_equals_year",
                          DateEqualsCurrentYearViewFilterType(cell, filter, context, sampled))
  /\ sampled' = NotSampled
  /\ UNCHANGED <<now, cell, filter, context, otherVars>>

MatchLinkRowContains ==
  /\ context.type = "link_row"
  /\ last' = Evaluation("link_row_contains", LinkRowContainsFilterType(cell, filter))
  /\ UNCHANGED <<now, cell, filter, context, sampled, otherVars>>

MatchLinkRowNotContains ==
  /\ context.type = "link_row"
  /\ last' = Evaluation("link_row_not_contains", LinkRowNotContainsFilterType(cell, filter))
  /\ UNCHANGED <<now, cell, filter, context, sampled, otherVars>>

MatchHasFileType ==
  /\ context.type = "file"
  /\ last' = Evaluation("has_file_type", HasFileTypeViewFilterType(cell, filter))
  /\ UNCHANGED <<now, cell, filter, context, sampled, otherVars>>

MatchMultipleSelectHas ==
  /\ context.type = "multiple_select"
  /\ last' = Evaluation("multiple_select_has", MultipleSelectHasFilterType(cell, filter))
  /\ UNCHANGED <<now, cell, filter, context, sampled, otherVars>>

MatchMultipleSelectHasNot ==
  /\ context.type = "multiple_select"
  /\ last' = Evaluation("multiple_select_has_not",
                        MultipleSelectHasNotFilterType(cell, filter))
  /\ UNCHANGED <<now, cell, filter, context, sampled, otherVars>>

MatchLengthIsLowerThan ==
  /\ context.type = "text"
  /\ last' = Evaluation("length_is_lower_than",
                        LengthIsLowerThanViewFilterType(cell, filter))
  /\ UNCHANGED <<now, cell, filter, context, sampled, otherVars>>

MatchHigherThan ==
  /\ context.type = "duration"
  /\ last' = Evaluation("higher_than", HigherThanViewFilterType(cell, filter, context))
  /\ UNCHANGED <<now, cell, filter, context, sampled, otherVars>>

MatchLowerThan ==
  /\ context.type = "duration"
  /\ last' = Evaluation("lower_than", LowerThanViewFilterType(cell, filter, context))
  /\ UNCHANGED <<now, cell, filter, context, sampled, otherVars>>

MatchIsEvenAndWhole ==
  /\ context.type = "number"
  /\ last' = Evaluation("is_even_and_whole", IsEvenAndWholeViewFilterType(cell))
  /\ UNCHANGED <<now, cell, filter, context, sampled, otherVars>>

Next ==
  \/ Tick
  \/ MatchDateBefore
  \/ MatchDateBeforeOrEqual
  \/ MatchDateAfter
  \/ MatchDateAfterOrEqual
  \/ MatchDateEqual
  \/ MatchDateNotEqual
  \/ MatchDateWithinDays
  \/ MatchDateWithinWeeks
  \/ MatchDateWithinMonths
  \/ MatchDateEqualsDaysAgo
  \/ MatchDateEqualsMonthsAgo
  \/ MatchDateEqualsYearsAgo
  \/ MatchDateAfterDaysAgo
  \/ ReadClock
  \/ MatchDateEqualsToday
  \/ MatchDateBeforeToday
  \/ MatchDateAfterToday
  \/ MatchDateEqualsCurrentWeek
  \/ MatchDateEqualsCurrentMonth
  \/ MatchDateEqualsCurrentYear
  \/ MatchLinkRowContains
  \/ MatchLinkRowNotContains
  \/ MatchHasFileType
  \/ MatchMultipleSelectHas
  \/ MatchMultipleSelectHasNot
  \/ MatchLengthIsLowerThan
  \/ MatchHigherThan
  \/ MatchLowerThan
  \/ MatchIsEvenAndWhole

Spec == Init /\ [][Next]_vars

-----------------------------------------------------------------------------
(* Properties of the date comparison filters *)

\* the zone, the filter's civil day and its first instant, for the filter
\* value under evaluation
Zone == getTimezone(filter.tz)

ReferenceInstant(filterValue) ==
  StartOfDay(FilterDay(filterValue), getTimezone(filterValue.tz))

CompareTypes ==
  {"date_before", "date_before_or_equal", "date_after", "date_after_or_equal",
   "date_equal", "date_not_equal"}

\* each case of the or-equal tables expects what the strict filter or the
\* equal filter gives
OrEqualTablesAreStrictOrEqual ==
  /\ \A c \in dateBeforeOrEqualCases :
       c.expected <=> \/ DateBeforeViewFilterType(c.rowValue, c.filterValue, IncludeTimeField)
                      \/ DateEqualViewFilterType(c.rowValue, c.filterValue, IncludeTimeField)
  /\ \A c \in dateAfterOrEqualCases :
       c.expected <=> \/ DateAfterViewFilterType(c.rowValue, c.filterValue, IncludeTimeField)
                      \/ DateEqualViewFilterType(c.rowValue, c.filterValue, IncludeTimeField)

\* C1: DateBeforeOrEqual matches exactly when DateBefore or DateEqual matches,
\* and DateAfterOrEqual exactly when DateAfter or DateEqual matches, for the
\* same row value, filter value and field; the expectation tables of the
\* or-equal filters say the same of each of their cases.
C1_OrEqualIsStrictOrEqual ==
  /\ last.type = "date_before_or_equal" =>
       (last.match <=> \/ DateBeforeViewFilterType(cell, filter, context)
                       \/ DateEqualViewFilterType(cell, filter, context))
  /\ last.type = "date_after_or_equal" =>
       (last.match <=> \/ DateAfterViewFilterType(cell, filter, context)
                       \/ DateEqualViewFilterType(cell, filter, context))
  /\ OrEqualTablesAreStrictOrEqual

\* an or-equal filter has matched a timestamp of the filter's day, which the
\* strict filter does not match
C1_Witness ==
  /\ last.type = "date_before_or_equal"
  /\ last.match
  /\ cell.k = "ts"
  /\ DateEqualViewFilterType(cell, filter, context)
  /\ ~DateBeforeViewFilterType(cell, filter, context)

\* C2: with date_include_time = FALSE and a row value that is present,
\* exactly one of DateBefore, DateEqual and DateAfter matches.
C2_ExactlyOneOfBeforeEqualAfter ==
  (/\ last.type \in {"date_before", "date_equal", "date_after"}
   /\ ~context.date_include_time
   /\ cell.k # "null")
  => LET others ==
           {t \in {"date_before", "date_equal", "date_after"} \ {last.type} :
              CASE t = "date_before" -> DateBeforeViewFilterType(cell, filter, context)
                [] t = "date_equal" -> DateEqualViewFilterType(cell, filter, context)
                [] t = "date_after" -> DateAfterViewFilterType(cell, filter, context)}
     IN  Cardinality(others) = (IF last.match THEN 0 ELSE 1)

\* DateAfter has matched a timestamp without time in the field, in a zone
\* where the row's day differs from its UTC day
C2_Witness ==
  /\ last.type = "date_after"
  /\ last.match
  /\ ~context.date_include_time
  /\ cell.k = "ts"
  /\ DayInZone(cell.v, Zone) # DayInZone(cell.v, "UTC")

\* C3 as stated: with date_include_time = TRUE the filters compare exact
\* instants: DateEqual matches iff the row's instant equals the filter's
\* reference instant, DateBefore iff it is earlier, DateAfter iff it is later.
C3_ExactInstants ==
  (context.type = "date" /\ context.date_include_time /\ cell.k = "ts") =>
    /\ last.type = "date_equal" => (last.match <=> cell.v = ReferenceInstant(filter))
    /\ last.type = "date_before" => (last.match <=> cell.v < ReferenceInstant(filter))
    /\ last.type = "date_after" => (last.match <=> cell.v > ReferenceInstant(filter))

\* each timestamp case of the before, equal and after tables expects the
\* comparison of the instant with the whole day of the filter date
TablesCompareInstantAgainstDay ==
  /\ \A c \in dateEqualCases :
       c.rowValue.k = "ts" =>
         (c.expected <=> /\ ReferenceInstant(c.filterValue) <= c.rowValue.v
                         /\ c.rowValue.v < ReferenceInstant(c.filterValue) + HoursPerDay)
  /\ \A c \in dateBeforeCases :
       c.rowValue.k = "ts" => (c.expected <=> c.rowValue.v < ReferenceInstant(c.filterValue))
  /\ \A c \in dateAfterCases :
       c.rowValue.k = "ts" =>
         (c.expected <=> c.rowValue.v >= ReferenceInstant(c.filterValue) + HoursPerDay)

\* C3 as amended: with date_include_time = TRUE the filters compare the row's
\* instant with the whole day of the filter date in the filter's zone:
\* DateEqual matches iff the instant lies in [reference, reference + 1 day),
\* DateBefore iff it is earlier than the reference instant, DateAfter iff it
\* is at or after reference + 1 day; the expectation tables say the same.
C3_InstantAgainstDay ==
  /\ (context.type = "date" /\ context.date_include_time /\ cell.k = "ts") =>
       /\ last.type = "date_equal" =>
            (last.match <=> /\ ReferenceInstant(filter) <= cell.v
                            /\ cell.v < ReferenceInstant(filter) + HoursPerDay)
       /\ last.type = "date_before" => (last.match <=> cell.v < ReferenceInstant(filter))
       /\ last.type = "date_after" =>
            (last.match <=> cell.v >= ReferenceInstant(filter) + HoursPerDay)
  /\ TablesCompareInstantAgainstDay

\* DateEqual has matched, with time in the field, a timestamp that is not
\* the filter's reference instant
C3_Witness ==
  /\ last.type = "date_equal"
  /\ last.match
  /\ context.date_include_time
  /\ cell.k = "ts"
  /\ cell.v # ReferenceInstant(filter)

\* the civil date of a row value in a zone, as year, month and day
CivilDate(rowValue, zone) ==
  IF rowValue.k = "date" THEN CivilFromDays(rowValue.v)
  ELSE CivilFromDays((Instant(rowValue) + ZoneOffset(zone)) \div HoursPerDay)

CivilEarlier(a, b) ==
  \/ a.y < b.y
  \/ a.y = b.y /\ a.m < b.m
  \/ a.y = b.y /\ a.m = b.m /\ a.d < b.d

\* what C4 says of one evaluation
CalendarDayRule(type, rowValue, filterValue, match) ==
  LET rowDate    == CivilDate(rowValue, getTimezone(filterValue.tz))
      filterDate == CivilFromDays(FilterDay(filterValue))
  IN  /\ type = "date_equal" => (match <=> rowDate = filterDate)
      /\ type = "date_before" => (match <=> CivilEarlier(rowDate, filterDate))
      /\ type = "date_after" => (match <=> CivilEarlier(filterDate, rowDate))

\* each case of the before, equal and after tables expects what the rule gives
TablesFollowCalendarDayRule ==
  /\ \A c \in dateEqualCases :
       CalendarDayRule("date_equal", c.rowValue, c.filterValue, c.expected)
  /\ \A c \in dateBeforeCases :
       CalendarDayRule("date_before", c.rowValue, c.filterValue, c.expected)
  /\ \A c \in dateAfterCases :
       CalendarDayRule("date_after", c.rowValue, c.filterValue, c.expected)

\* C4: with date_include_time = TRUE and a filter value 'zone?YYYY-MM-DD', a
\* timestamp matches DateEqual iff its calendar day in the zone is the filter
\* date, DateBefore iff that day is earlier, DateAfter iff it is later; a bare
\* date is compared by its own date in every zone; the expectation tables say
\* the same.
C4_CalendarDayInZone ==
  /\ (IsDateFilter /\ context.date_include_time /\ cell.k # "null") =>
       CalendarDayRule(last.type, cell, filter, last.match)
  /\ TablesFollowCalendarDayRule

\* DateEqual has matched a bare date in a zone west of UTC, where the UTC
\* midnight of that date falls on the day before
C4_Witness ==
  /\ last.type = "date_equal"
  /\ last.match
  /\ context.date_include_time
  /\ cell.k = "date"
  /\ ZoneOffset(Zone) < 0

\* each case of the not-equal table expects the negation of the equal filter
NotEqualTableNegatesEqual ==
  \A c \in dateNotEqualCases :
    c.expected <=> ~DateEqualViewFilterType(c.rowValue, c.filterValue, IncludeTimeField)

\* C5: for a row value that is present DateNotEqual matches exactly when
\* DateEqual does not; for a missing row value none of the six comparison
\* filters matches; the not-equal table says the first of each of its cases.
C5_NotEqualNegatesEqual ==
  /\ (last.type = "date_not_equal" /\ cell.k # "null") =>
       (last.match <=> ~DateEqualViewFilterType(cell, filter, context))
  /\ (last.type \in CompareTypes /\ cell.k = "null") => ~last.match
  /\ NotEqualTableNegatesEqual

\* DateNotEqual has been evaluated on a missing row value
C5_Witness ==
  /\ last.type = "date_not_equal"
  /\ cell.k = "null"
  /\ ~last.match

-----------------------------------------------------------------------------
(* Properties of the missing row value, the timezone and the payload *)

\* the row value is missing: null, or the empty list of a link-row cell
Absent == IF context.type = "link_row" THEN cell = <<>> ELSE cell.k = "null"

PositiveTypes ==
  {"date_before", "date_after", "date_equal", "link_row_contains", "higher_than",
   "lower_than", "date_after_days_ago", "is_even_and_whole"}

\* C6 as stated: a missing row value never matches a positive filter, for
\* every filter value and field.
C6_AbsentNeverMatches ==
  (last.type \in PositiveTypes /\ Absent) => ~last.match

\* the duration, days-after and even-and-whole tables expect no match of a
\* missing row value
TablesExpectNoMatchOfNull ==
  /\ \A c \in durationHigherThanCases \cup durationLowerThanCases :
       c.rowValue = NullRow => ~c.expected
  /\ \A c \in dateDaysAfterInvalidCases(MockNow) \cup dateDaysAfterValidCases(MockNow) :
       c.rowValue = NullRow => ~c.expected
  /\ \A c \in numberIsEvenAndWholeCases : c.rowValue = NullRow => ~c.expected

\* C6 as amended: a missing row value never matches a positive filter, except
\* link-row contains with the empty filter value, which matches it as it
\* matches every row; the tables expect no match of any missing row value.
C6_AbsentMatchesOnlyEmptyContains ==
  /\ (last.type \in PositiveTypes /\ Absent) =>
       (last.match <=> (last.type = "link_row_contains" /\ filter = <<>>))
  /\ TablesExpectNoMatchOfNull

\* a duration filter has been evaluated on a missing row value whose filter
\* value is above 0 seconds, so that a null read as 0 would be lower
C6_Witness ==
  /\ last.type = "lower_than"
  /\ cell = NullRow
  /\ parseFilterValue(filter, context.duration_format) > 0
  /\ ~last.match

RelativeTypes ==
  {"date_within_days", "date_within_weeks", "date_within_months",
   "date_equals_days_ago", "date_equals_months_ago", "date_equals_years_ago"}

\* the result of a relative filter type on a row value, a filter value and a
\* clock
RelativeMatches(type, rowValue, filterValue, at) ==
  CASE type = "date_within_days" ->
         DateWithinDaysViewFilterType(rowValue, filterValue, NoField, at)
    [] type = "date_within_weeks" ->
         DateWithinWeeksViewFilterType(rowValue, filterValue, NoField, at)
    [] type = "date_within_months" ->
         DateWithinMonthsViewFilterType(rowValue, filterValue, NoField, at)
    [] type = "date_equals_days_ago" ->
         DateEqualsDaysAgoViewFilterType(rowValue, filterValue, NoField, at)
    [] type = "date_equals_months_ago" ->
         DateEqualsMonthsAgoViewFilterType(rowValue, filterValue, NoField, at)
    [] type = "date_equals_years_ago" ->
         DateEqualsYearsAgoViewFilterType(rowValue, filterValue, NoField, at)

RelativeTables(loaded) ==
  dateWithinDays(loaded) \cup dateWithinWeeks(loaded) \cup dateWithinMonths(loaded)
    \cup dateDaysAgo(loaded) \cup dateMonthsAgo(loaded) \cup dateYearsAgo(loaded)

\* within one table, the cases of an unknown zone and of the empty zone with
\* the same row and payload expect the same
SameForUnknownZone(cases) ==
  \A c1 \in cases, c2 \in cases :
    (/\ c1.rowValue = c2.rowValue
     /\ c1.filterValue.payload = c2.filterValue.payload
     /\ c1.filterValue.tz = "Mars/Noland"
     /\ c2.filterValue.tz = "")
    => c1.expected = c2.expected

TablesSameForUnknownZone ==
  /\ SameForUnknownZone(dateWithinDays(MockNow))
  /\ SameForUnknownZone(dateWithinWeeks(MockNow))
  /\ SameForUnknownZone(dateWithinMonths(MockNow))
  /\ SameForUnknownZone(dateDaysAgo(MockNow))
  /\ SameForUnknownZone(dateMonthsAgo(MockNow))
  /\ SameForUnknownZone(dateYearsAgo(MockNow))

\* C7: a relative filter gives, for a filter value whose timezone is unknown,
\* the result it gives for the same payload with the empty timezone and with
\* 'UTC'; the tables expect the same of 'Mars/Noland?1' and '?1'.
C7_UnknownZoneIsUtc ==
  /\ (last.type \in RelativeTypes /\ filter.tz \notin KnownZones) =>
       /\ last.match = RelativeMatches(last.type, cell, [filter EXCEPT !.tz = "UTC"], last.at)
       /\ last.match = RelativeMatches(last.type, cell, [filter EXCEPT !.tz = ""], last.at)
  /\ TablesSameForUnknownZone

\* a relative filter with the zone 'Mars/Noland' has been evaluated on a row
\* that another zone than UTC dates on another day
C7_Witness ==
  /\ last.type = "date_equals_days_ago"
  /\ filter.tz = "Mars/Noland"
  /\ filter.payload.k = "num"
  /\ cell.k = "ts"
  /\ last.match
  /\ ~RelativeMatches(last.type, cell, [filter EXCEPT !.tz = "Europe/Berlin"], last.at)

RelativeTablesMatchEmptyPayload ==
  \A c \in RelativeTables(MockNow) : c.filterValue.payload.k = "empty" => c.expected

TablesMatchEmptyFilter ==
  /\ \A c \in dateWithinDays(MockNow) \cup dateWithinWeeks(MockNow)
              \cup dateWithinMonths(MockNow) \cup dateDaysAgo(MockNow)
              \cup dateMonthsAgo(MockNow) \cup dateYearsAgo(MockNow) :
       (c.filterValue = NoFilterValue \/ c.filterValue.payload.k = "empty") => c.expected
  /\ \A c \in linkRowContainsCases \cup linkRowNotContainsCases :
       c.filterValue = <<>> => c.expected
  /\ \A c \in hasFileTypeCases : c.filterValue = "" => c.expected

\* C9: with an empty filter value ('' and, for the date filters, an empty
\* payload after '?') the relative filters, link-row contains, link-row
\* not-contains and has-file-type match every row value; the tables expect a
\* match of each of their cases with an empty filter value.
C9_EmptyFilterMatchesAll ==
  /\ (last.type \in RelativeTypes /\ filter.payload.k = "empty") => last.match
  /\ (last.type \in {"link_row_contains", "link_row_not_contains"} /\ filter = <<>>) =>
       last.match
  /\ (last.type = "has_file_type" /\ filter = "") => last.match
  /\ TablesMatchEmptyFilter

\* link-row not-contains with the empty filter value has matched a row that
\* link-row contains matches as well
C9_Witness ==
  /\ last.type = "link_row_not_contains"
  /\ filter = <<>>
  /\ cell # <<>>
  /\ last.match
  /\ LinkRowContainsFilterType(cell, filter)

\* the instant N units after the clock, keeping the local time of day
LaterInstant(type, at, n, zone) ==
  CASE type = "date_within_days" -> at + n * HoursPerDay
    [] type = "date_within_weeks" -> at + n * 7 * HoursPerDay
    [] type = "date_within_months" ->
         StartOfDay(AddMonths(DayInZone(at, zone), n), zone)
           + ((at + ZoneOffset(zone)) % HoursPerDay)

WithinTypes == {"date_within_days", "date_within_weeks", "date_within_months"}

\* C10 as stated: for a payload N >= 0 a within-next-N filter matches iff the
\* row's instant lies in [now, now + N units]; a row earlier than now never
\* matches.
C10_WithinInstantWindow ==
  (last.type \in WithinTypes /\ filter.payload.k = "num" /\ cell.k = "ts") =>
    (last.match <=> /\ last.at <= cell.v
                    /\ cell.v <= LaterInstant(last.type, last.at, filter.payload.v, Zone))

\* the instants at which the tests may run, the tables being loaded at the
\* first of them
TestClock == MockNow..(MockNow + MaxClock)

\* each numeric case of the within-days table expects the day window,
\* whenever the test runs
WithinDaysTableFollowsDayWindow ==
  \A at \in TestClock : \A c \in dateWithinDays(MockNow) :
    c.filterValue.payload.k = "num" =>
      (c.expected <=>
         /\ StartOfDay(Today(at, getTimezone(c.filterValue.tz)),
                       getTimezone(c.filterValue.tz)) <= Instant(c.rowValue)
         /\ Instant(c.rowValue)
              < StartOfDay(Today(at, getTimezone(c.filterValue.tz))
                             + c.filterValue.payload.v + 1,
                           getTimezone(c.filterValue.tz)))

\* C10 as amended: for a payload N >= 0 a within-next-N filter matches iff the
\* row's calendar day in the resolved zone lies between today and the day of
\* now + N units, both included: a timestamp matches iff it is not before the
\* start of today and before the end of that last day, so that a row of
\* today matches although it is earlier than now, and a row dated before
\* today never matches; the tables expect a match of the row 'now' when the
\* test runs after the table has been built.
C10_WithinDayWindow ==
  /\ (last.type \in WithinTypes /\ filter.payload.k = "num" /\ cell.k = "ts") =>
       (last.match <=>
          /\ StartOfDay(Today(last.at, Zone), Zone) <= cell.v
          /\ cell.v < StartOfDay(
                        DayInZone(LaterInstant(last.type, last.at, filter.payload.v, Zone),
                                  Zone) + 1, Zone))
  /\ (last.type \in WithinTypes /\ filter.payload.k = "num" /\ cell.k = "date") =>
       (last.match <=>
          /\ Today(last.at, Zone) <= cell.v
          /\ cell.v <= DayInZone(LaterInstant(last.type, last.at, filter.payload.v, Zone),
                                 Zone))
  /\ WithinDaysTableFollowsDayWindow

\* a within-next-N filter has matched a timestamp of today that is earlier
\* than the clock
C10_Witness ==
  /\ last.type \in WithinTypes
  /\ filter.payload.k = "num"
  /\ cell.k = "ts"
  /\ cell.v < last.at
  /\ last.match

-----------------------------------------------------------------------------
(* Properties of the relative filters *)

AgoTypes ==
  {"date_equals_days_ago", "date_equals_months_ago", "date_equals_years_ago"}

\* the civil date N months before a civil date: the month moves, the day of
\* the month stays unless the month is too short for it
CivilMonthsBefore(date, n) ==
  LET idx == date.y * 12 + (date.m - 1) - n
      y2  == idx \div 12
      m2  == (idx % 12) + 1
  IN  [y |-> y2, m |-> m2, d |-> Min(date.d, DaysInMonth(y2, m2))]

\* the civil date of (at - N units) in a zone
CivilDateAgo(type, at, n, zone) ==
  CASE type = "date_equals_days_ago" -> CivilFromDays(DayInZone(at - n * HoursPerDay, zone))
    [] type = "date_equals_months_ago" ->
         CivilMonthsBefore(CivilFromDays(DayInZone(at, zone)), n)
    [] type = "date_equals_years_ago" ->
         CivilMonthsBefore(CivilFromDays(DayInZone(at, zone)), 12 * n)

\* what C11 says of one evaluation with a numeric payload
ExactDayRule(type, rowValue, filterValue, at, match) ==
  match <=> CivilDate(rowValue, getTimezone(filterValue.tz))
              = CivilDateAgo(type, at, filterValue.payload.v, getTimezone(filterValue.tz))

\* each numeric case of the ago tables expects what the rule gives, whenever
\* the test runs
AgoTablesFollowExactDayRule ==
  \A at \in TestClock :
    /\ \A c \in dateDaysAgo(MockNow) :
         c.filterValue.payload.k = "num" =>
           ExactDayRule("date_equals_days_ago", c.rowValue, c.filterValue, at, c.expected)
    /\ \A c \in dateMonthsAgo(MockNow) :
         c.filterValue.payload.k = "num" =>
           ExactDayRule("date_equals_months_ago", c.rowValue, c.filterValue, at, c.expected)
    /\ \A c \in dateYearsAgo(MockNow) :
         c.filterValue.payload.k = "num" =>
           ExactDayRule("date_equals_years_ago", c.rowValue, c.filterValue, at, c.expected)

\* C11: for a numeric payload N an N-days/months/years-ago filter matches iff
\* the row's civil date in the resolved zone is the date of (now - N units);
\* a row of any other day, the days between that date and today included,
\* does not match; the tables expect the same of their numeric cases.
C11_AgoIsExactDay ==
  /\ (last.type \in AgoTypes /\ filter.payload.k = "num") =>
       /\ ExactDayRule(last.type, cell, filter, last.at, last.match)
       /\ (/\ RowDay(cell, Zone) <= Today(last.at, Zone)
           /\ CivilEarlier(CivilDateAgo(last.type, last.at, filter.payload.v, Zone),
                           CivilDate(cell, Zone)))
          => ~last.match
  /\ AgoTablesFollowExactDayRule

\* a months-ago filter with the payload 2 has been evaluated on a row dated
\* between two months ago and today, and has not matched it
C11_Witness ==
  /\ last.type = "date_equals_months_ago"
  /\ filter.payload = NumPayload(2)
  /\ RowDay(cell, Zone) < Today(last.at, Zone)
  /\ CivilEarlier(CivilDateAgo(last.type, last.at, 2, Zone), CivilDate(cell, Zone))
  /\ ~last.match

\* what C12 says of one evaluation: N is a positive integer, the row value is
\* present and its civil date is neither before the date of (today - N days)
\* nor after today's
DaysAfterRule(rowValue, filterValue, at, match) ==
  LET zone == getTimezone(filterValue.tz)
  IN  match <=>
        /\ filterValue.payload.k = "num"
        /\ filterValue.payload.v > 0
        /\ rowValue.k # "null"
        /\ ~CivilEarlier(CivilDate(rowValue, zone),
                         CivilFromDays(DayInZone(at, zone) - filterValue.payload.v))
        /\ ~CivilEarlier(CivilFromDays(DayInZone(at, zone)), CivilDate(rowValue, zone))

\* each case of the days-after tables expects what the rule gives, whenever
\* the test runs
DaysAfterTablesFollowRule ==
  \A at \in TestClock :
    \A c \in dateDaysAfterValidCases(MockNow) \cup dateDaysAfterInvalidCases(MockNow) :
      DaysAfterRule(c.rowValue, c.filterValue, at, c.expected)

\* C12: the days-after-relative filter with 'zone?N' or a bare 'N' matches iff
\* N is a positive integer and the row's date lies in [today - N days, today]
\* in the resolved zone, both ends included; for N <= 0, a non-numeric, blank
\* or empty payload, or a missing row value it does not match; both tables
\* expect the same of each of their cases.
C12_DaysAfterWindow ==
  /\ last.type = "date_after_days_ago" =>
       DaysAfterRule(cell, filter, last.at, last.match)
  /\ DaysAfterTablesFollowRule

\* the filter has matched, for a bare 'N', a row dated exactly N days ago in
\* UTC: the lower end of the window
C12_Witness ==
  /\ last.type = "date_after_days_ago"
  /\ ~filter.sep
  /\ filter.payload.k = "num"
  /\ cell.k # "null"
  /\ RowDay(cell, "UTC") = Today(last.at, "UTC") - filter.payload.v
  /\ last.match

-----------------------------------------------------------------------------
(* Properties of the filters relative to today *)

TodayTypes == {"date_equals_today", "date_before_today", "date_after_today"}

\* the result of a today filter type on a row value, a zone and a clock
TodayMatches(type, rowValue, filterValue, at) ==
  CASE type = "date_equals_today" ->
         DateEqualsTodayViewFilterType(rowValue, filterValue, NoField, at)
    [] type = "date_before_today" ->
         DateBeforeTodayViewFilterType(rowValue, filterValue, NoField, at)
    [] type = "date_after_today" ->
         DateAfterTodayViewFilterType(rowValue, filterValue, NoField, at)

\* what C13 says of one evaluation
TodayRule(type, rowValue, filterValue, at, match) ==
  LET zone    == getTimezone(filterValue.tz)
      rowDate == CivilDate(rowValue, zone)
      today   == CivilFromDays(DayInZone(at, zone))
  IN  /\ type = "date_equals_today" => (match <=> rowDate = today)
      /\ type = "date_before_today" => (match <=> CivilEarlier(rowDate, today))
      /\ type = "date_after_today" => (match <=> CivilEarlier(today, rowDate))

\* each case of the today tables expects what the rule gives, whenever the
\* test runs
TodayTablesFollowRule ==
  \A at \in TestClock :
    /\ \A c \in dateToday(MockNow) :
         TodayRule("date_equals_today", c.rowValue, c.filterValue, at, c.expected)
    /\ \A c \in dateBeforeToday(MockNow) :
         TodayRule("date_before_today", c.rowValue, c.filterValue, at, c.expected)
    /\ \A c \in dateAfterToday(MockNow) :
         TodayRule("date_after_today", c.rowValue, c.filterValue, at, c.expected)

\* C13: for a row value that is present and any timezone exactly one of the
\* today, before-today and after-today filters matches at one instant: today
\* iff the row's civil day in the zone is the current day, before-today iff
\* it is earlier, after-today iff it is later; the tables expect the same.
C13_ExactlyOneOfTodayFilters ==
  /\ last.type \in TodayTypes =>
       /\ TodayRule(last.type, cell, filter, last.at, last.match)
       /\ Cardinality({t \in TodayTypes : TodayMatches(t, cell, filter, last.at)}) = 1
  /\ TodayTablesFollowRule

\* before-today has matched a timestamp that is of today in UTC and of
\* yesterday in the filter's zone
C13_Witness ==
  /\ last.type = "date_before_today"
  /\ last.match
  /\ cell.k = "ts"
  /\ DayInZone(cell.v, "UTC") = DayInZone(last.at, "UTC")
  /\ DayInZone(cell.v, Zone) < DayInZone(last.at, Zone)

-----------------------------------------------------------------------------
(* Properties of the filters on the current week, month and year *)

PeriodTypes == {"date_equals_week", "date_equals_month", "date_equals_year"}

\* the civil date of the first day of the period after the one of a civil
\* date
NextMonth(date) ==
  IF date.m = 12 THEN [y |-> date.y + 1, m |-> 1, d |-> 1]
  ELSE [y |-> date.y, m |-> date.m + 1, d |-> 1]

\* the days on which the current period of an instant starts and on which the
\* next one starts, in a zone
PeriodStart(type, at, zone) ==
  LET today == DayInZone(at, zone)
      date  == CivilFromDays(today)
  IN  CASE type = "date_equals_week" ->
             CHOOSE d \in (today - 6)..today : (d + 3) % 7 = 0
        [] type = "date_equals_month" -> DaysFromCivil(date.y, date.m, 1)
        [] type = "date_equals_year" -> DaysFromCivil(date.y, 1, 1)

PeriodEnd(type, at, zone) ==
  LET today == DayInZone(at, zone)
      date  == CivilFromDays(today)
  IN  CASE type = "date_equals_week" -> PeriodStart(type, at, zone) + 7
        [] type = "date_equals_month" ->
             DaysFromCivil(NextMonth(date).y, NextMonth(date).m, 1)
        [] type = "date_equals_year" -> DaysFromCivil(date.y + 1, 1, 1)

\* what C14 says of one evaluation: a timestamp lies in [start, end) of the
\* period, a bare date is one of the period's days
PeriodRule(type, rowValue, filterValue, at, match) ==
  LET zone == getTimezone(filterValue.tz)
  IN  IF rowValue.k # "date"
        THEN match <=> /\ StartOfDay(PeriodStart(type, at, zone), zone) <= Instant(rowValue)
                       /\ Instant(rowValue) < StartOfDay(PeriodEnd(type, at, zone), zone)
        ELSE match <=> /\ PeriodStart(type, at, zone) <= rowValue.v
                       /\ rowValue.v < PeriodEnd(type, at, zone)

\* each case of the period tables expects what the rule gives under the
\* mocked clock
PeriodTablesFollowRule ==
  /\ \A c \in dateInThisWeek :
       PeriodRule("date_equals_week", c.rowValue, c.filterValue, MockNow, c.expected)
  /\ \A c \in dateInThisMonth :
       PeriodRule("date_equals_month", c.rowValue, c.filterValue, MockNow, c.expected)
  /\ \A c \in dateInThisYear :
       PeriodRule("date_equals_year", c.rowValue, c.filterValue, MockNow, c.expected)

\* C14: the filters on the current week, month and year match a row iff its
\* instant lies in the half-open window [start, end) of the current period
\* in the filter's timezone, a week running from Monday 00:00 to the next
\* Monday 00:00; a bare date matches iff it is a day of the period; the
\* tables expect the same.
C14_CurrentPeriodWindow ==
  /\ last.type \in PeriodTypes =>
       PeriodRule(last.type, cell, filter, last.at, last.match)
  /\ PeriodTablesFollowRule

\* the month filter has matched a timestamp that it does not match in UTC:
\* the same instant near the end of a month, in two zones
C14_Witness ==
  /\ last.type = "date_equals_month"
  /\ last.match
  /\ cell.k = "ts"
  /\ ~DateEqualsCurrentMonthViewFilterType(cell, ZoneValue("UTC"), context, last.at)

-----------------------------------------------------------------------------
(* Properties of the duration, selection, link-row and length filters *)

\* the seconds a duration filter value stands for, as written
FilterSeconds(filterValue) ==
  IF filterValue.k = "num" THEN filterValue.v
  ELSE IF Len(filterValue.parts) = 2
    THEN filterValue.parts[1] * 3600 + filterValue.parts[2] * 60
    ELSE filterValue.parts[1] * 3600 + filterValue.parts[2] * 60 + filterValue.parts[3]

\* seconds to the nearest whole minute for 'h:mm', as they are for 'h:mm:ss'
Rounded(seconds, duration_format) ==
  IF duration_format = "h:mm" THEN 60 * ((seconds + 30) \div 60) ELSE seconds

\* what C15 says of one evaluation on a present row value
RoundedCompareRule(type, rowValue, filterValue, field, match) ==
  LET row    == Rounded(rowValue.v, field.duration_format)
      wanted == Rounded(FilterSeconds(filterValue), field.duration_format)
  IN  /\ type = "higher_than" => (match <=> row > wanted)
      /\ type = "lower_than" => (match <=> row < wanted)
      /\ row = wanted => ~match

\* each case of the duration tables with a present row value expects what
\* the rule gives
DurationTablesFollowRule ==
  /\ \A c \in durationHigherThanCases :
       c.rowValue # NullRow =>
         RoundedCompareRule("higher_than", c.rowValue, c.filterValue, c.field, c.expected)
  /\ \A c \in durationLowerThanCases :
       c.rowValue # NullRow =>
         RoundedCompareRule("lower_than", c.rowValue, c.filterValue, c.field, c.expected)

\* C15: duration higher-than and lower-than round the row's seconds and the
\* filter value to the precision of the field's duration format and compare
\* strictly, so that values equal after rounding match neither filter; the
\* tables expect the same.
C15_RoundedStrictComparison ==
  /\ (last.type \in {"higher_than", "lower_than"} /\ cell # NullRow) =>
       RoundedCompareRule(last.type, cell, filter, context, last.match)
  /\ DurationTablesFollowRule

\* higher-than has been evaluated on 61 seconds against 60 with 'h:mm' and
\* has not matched, and neither does lower-than; with 'h:mm:ss' higher-than
\* matches
C15_Witness ==
  /\ last.type = "higher_than"
  /\ cell = NumRow(61)
  /\ filter = Seconds(60)
  /\ context = DurationField("h:mm")
  /\ ~last.match
  /\ ~LowerThanViewFilterType(cell, filter, context)
  /\ HigherThanViewFilterType(cell, filter, DurationField("h:mm:ss"))

\* each case of the multiple-select tables expects, for an id, what the
\* search of the row's options gives and, for a text, a match
SelectTablesFollowRule ==
  /\ \A c \in multipleSelectValuesHas :
       c.expected <=> \/ c.filterValue.k # "num"
                      \/ c.filterValue.v \in {c.rowValue[i].id : i \in 1..Len(c.rowValue)}
  /\ \A c \in multipleSelectValuesHasNot :
       c.expected <=> \/ c.filterValue.k # "num"
                      \/ c.filterValue.v \notin {c.rowValue[i].id : i \in 1..Len(c.rowValue)}

\* C16: when the filter value is an option id, multiple-select has matches iff
\* some option of the row has that id, and has-not matches iff has does not;
\* when the filter value is not a number, has and has-not both match every
\* row; the tables expect the same.
C16_SelectHasAndHasNot ==
  /\ (last.type = "multiple_select_has" /\ filter.k = "num") =>
       (last.match <=> filter.v \in {cell[i].id : i \in 1..Len(cell)})
  /\ (last.type = "multiple_select_has_not" /\ filter.k = "num") =>
       (last.match <=> ~MultipleSelectHasFilterType(cell, filter))
  /\ (last.type \in {"multiple_select_has", "multiple_select_has_not"} /\ filter.k # "num") =>
       last.match
  /\ SelectTablesFollowRule

\* has-not has matched, for a filter value that is not a number, a row that
\* has matches as well
C16_Witness ==
  /\ last.type = "multiple_select_has_not"
  /\ filter = TextValue
  /\ cell # <<>>
  /\ last.match
  /\ MultipleSelectHasFilterType(cell, filter)

\* the text occurs in the value at some position, upper and lower case taken
\* as the same
OccursIn(text, value) ==
  \E off \in 0..(Len(value) - Len(text)) :
    \A k \in 1..Len(text) : ToLower(value[off + k]) = ToLower(text[k])

\* some linked record's display value contains the text
SomeValueContains(rowValue, text) ==
  \E i \in 1..Len(rowValue) : OccursIn(text, rowValue[i].value)

\* C17 as stated: link-row contains matches iff some linked record's display
\* value contains the filter text, or the filter text is empty, and link-row
\* not-contains matches iff contains does not, for every row and every
\* filter value, the empty one included.
C17_NotContainsIsNegation ==
  /\ last.type = "link_row_contains" =>
       (last.match <=> (filter = <<>> \/ SomeValueContains(cell, filter)))
  /\ last.type = "link_row_not_contains" =>
       (last.match <=> ~LinkRowContainsFilterType(cell, filter))

\* each case of the link-row tables expects the search of the values for a
\* filter text and a match for the empty filter value
LinkRowTablesFollowRule ==
  /\ \A c \in linkRowContainsCases :
       c.expected <=> (c.filterValue = <<>> \/ SomeValueContains(c.rowValue, c.filterValue))
  /\ \A c \in linkRowNotContainsCases :
       c.expected <=> (c.filterValue = <<>> \/ ~SomeValueContains(c.rowValue, c.filterValue))

\* C17 as amended: link-row contains matches iff the filter text is empty or
\* some linked record's display value contains it, upper and lower case
\* taken as the same; link-row not-contains matches iff contains does not
\* when the filter text is not empty, and matches every row, as contains
\* does, when it is empty; the tables expect the same.
C17_NotContainsNegatesNonEmpty ==
  /\ last.type = "link_row_contains" =>
       (last.match <=> (filter = <<>> \/ SomeValueContains(cell, filter)))
  /\ (last.type = "link_row_not_contains" /\ filter # <<>>) =>
       (last.match <=> ~LinkRowContainsFilterType(cell, filter))
  /\ (last.type = "link_row_not_contains" /\ filter = <<>>) =>
       (last.match /\ LinkRowContainsFilterType(cell, filter))
  /\ LinkRowTablesFollowRule

\* not-contains has been evaluated with a filter text in upper case on a row
\* that holds the text in lower case only, and has not matched
C17_Witness ==
  /\ last.type = "link_row_not_contains"
  /\ filter = BILL
  /\ \A i \in 1..Len(cell) : cell[i].value # BILL
  /\ \E i \in 1..Len(cell) : cell[i].value = bill
  /\ ~last.match

\* C18 as stated: length-lower-than matches iff the row text is shorter than
\* the filter value, for every numeric filter value, 0 included; for a
\* filter value that is not a number it matches every row.
C18_ShorterThanEveryLimit ==
  last.type = "length_is_lower_than" =>
    /\ filter.k = "num" => (last.match <=> Len(cell) < filter.v)
    /\ filter.k # "num" => last.match

\* each case of the length table expects a match for the limit 0 and for a
\* text, and the comparison of the length for every other limit
LengthTableFollowsRule ==
  \A c \in lengthIsLowerThanCases :
    c.expected <=> \/ c.filterValue.k # "num"
                   \/ c.filterValue.v = 0
                   \/ Len(c.rowValue) < c.filterValue.v

\* C18 as amended: length-lower-than matches iff the row text is shorter than
\* the filter value, for every numeric filter value other than 0; for the
\* filter value 0 and for a filter value that is not a number it matches
\* every row; the table expects the same.
C18_ShorterThanNonZeroLimit ==
  /\ (last.type = "length_is_lower_than" /\ filter.k = "num" /\ filter.v # 0) =>
       (last.match <=> Len(cell) < filter.v)
  /\ (last.type = "length_is_lower_than" /\ (filter.k # "num" \/ filter.v = 0)) =>
       last.match
  /\ LengthTableFollowsRule

\* length-lower-than has matched a text of four characters for the limit 0
C18_Witness ==
  /\ last.type = "length_is_lower_than"
  /\ filter = NumberValue(0)
  /\ cell = bill
  /\ last.match

-----------------------------------------------------------------------------
(* Properties of the clock and of the row's zone *)

\* the result of a filter on the current period on a row value, a zone and a
\* clock
PeriodMatches(type, rowValue, filterValue, at) ==
  CASE type = "date_equals_week" ->
         DateEqualsCurrentWeekViewFilterType(rowValue, filterValue, NoField, at)
    [] type = "date_equals_month" ->
         DateEqualsCurrentMonthViewFilterType(rowValue, filterValue, NoField, at)
    [] type = "date_equals_year" ->
         DateEqualsCurrentYearViewFilterType(rowValue, filterValue, NoField, at)

\* the result of evaluating a filter relative to today at one instant
AtomicMatch(type, rowValue, filterValue, at) ==
  IF type \in TodayTypes THEN TodayMatches(type, rowValue, filterValue, at)
  ELSE PeriodMatches(type, rowValue, filterValue, at)

CompareMatches(type, rowValue, filterValue) ==
  CASE type = "date_before" ->
         DateBeforeViewFilterType(rowValue, filterValue, IncludeTimeField)
    [] type = "date_before_or_equal" ->
         DateBeforeOrEqualViewFilterType(rowValue, filterValue, IncludeTimeField)
    [] type = "date_after" ->
         DateAfterViewFilterType(rowValue, filterValue, IncludeTimeField)
    [] type = "date_after_or_equal" ->
         DateAfterOrEqualViewFilterType(rowValue, filterValue, IncludeTimeField)
    [] type = "date_equal" ->
         DateEqualViewFilterType(rowValue, filterValue, IncludeTimeField)
    [] type = "date_not_equal" ->
         DateNotEqualViewFilterType(rowValue, filterValue, IncludeTimeField)

\* the result of a date filter type on a row value, a filter value and a
\* clock
DateMatches(type, rowValue, filterValue, at) ==
  CASE type \in CompareTypes -> CompareMatches(type, rowValue, filterValue)
    [] type \in WithinTypes \cup AgoTypes ->
         RelativeMatches(type, rowValue, filterValue, at)
    [] type = "date_after_days_ago" ->
         DateAfterDaysAgoViewFilterType(rowValue, filterValue, NoField, at)
    [] type \in TodayTypes \cup PeriodTypes ->
         AtomicMatch(type, rowValue, filterValue, at)

DateTypes ==
  CompareTypes \cup WithinTypes \cup AgoTypes \cup {"date_after_days_ago"}
    \cup TodayTypes \cup PeriodTypes

\* the instants of the offset-written rows of the relative tables: from a
\* year before the clock to three weeks after it
TableInstants == (MockNow - 367 * HoursPerDay)..(MockNow + 21 * HoursPerDay)

\* the relative tables with their filter types
TypedRelativeTables(loaded) ==
  { [type |-> "date_within_days",       cases |-> dateWithinDays(loaded)],
    [type |-> "date_within_weeks",      cases |-> dateWithinWeeks(loaded)],
    [type |-> "date_within_months",     cases |-> dateWithinMonths(loaded)],
    [type |-> "date_equals_days_ago",   cases |-> dateDaysAgo(loaded)],
    [type |-> "date_equals_months_ago", cases |-> dateMonthsAgo(loaded)],
    [type |-> "date_equals_years_ago",  cases |-> dateYearsAgo(loaded)] }

\* each relative table has a row written with the offset of Europe/Berlin,
\* and expects of it what the same instant written in UTC gives, whenever
\* the test runs
TablesSameForOffsetRow ==
  \A table \in TypedRelativeTables(MockNow) :
    /\ \E c \in table.cases : c.rowValue.k = "local"
    /\ \A c \in table.cases : \A t \in TableInstants :
         c.rowValue = Written(t, "Europe/Berlin") =>
           \A at \in TestClock :
             c.expected = RelativeMatches(table.type, TsRow(t), c.filterValue, at)

-----------------------------------------------------------------------------
(* The integer validators (modules/core/utils/validator.js).  A JavaScript *)
(* value is a record of its type t, its kind v, its integer n where it has *)
(* one, and its characters s where it is a string.                         *)

FiltersIdle ==
  /\ now = MockNow
  /\ cell = NullRow
  /\ filter = NoFilterValue
  /\ context = NoField
  /\ sampled = NotSampled
  /\ last = NoEvaluation

JsValue(t, v, n, s) == [t |-> t, v |-> v, n |-> n, s |-> s]

\* an integer number
IntegerNumber(n) == JsValue("number", "integer", n, <<>>)

\* a number with a fractional part, such as 1.5
Fraction == JsValue("number", "fraction", 0, <<>>)

NaN == JsValue("number", "NaN", 0, <<>>)

\* Infinity (sign 1) and -Infinity (sign -1)
InfinityNumber(sign) == JsValue("number", "Infinity", sign, <<>>)

\* a string primitive, and a String object of the same characters
Str(chars) == JsValue("string", "primitive", 0, chars)

StringObject(chars) == JsValue("object", "String", 0, chars)

Null == JsValue("object", "null", 0, <<>>)

Undefined == JsValue("undefined", "undefined", 0, <<>>)

Bool(b) == JsValue("boolean", IF b THEN "true" ELSE "false", 0, <<>>)

PlainObject == JsValue("object", "Object", 0, <<>>)

Digits == {"0", "1", "2", "3", "4", "5", "6", "7", "8", "9"}

DigitValue(c) ==
  CASE c = "0" -> 0 [] c = "1" -> 1 [] c = "2" -> 2 [] c = "3" -> 3 [] c = "4" -> 4
    [] c = "5" -> 5 [] c = "6" -> 6 [] c = "7" -> 7 [] c = "8" -> 8 [] c = "9" -> 9

InfinityWord == <<"I", "n", "f", "i", "n", "i", "t", "y">>

\* the characters after an optional leading sign
Unsigned(chars) ==
  IF Len(chars) > 0 /\ chars[1] \in {"-", "+"} THEN Tail(chars) ELSE chars

\* /^(-|\+)?(\d+)$/.test(chars): the pattern of the code without its
\* 'Infinity' alternative
testDigitsOnly(chars) ==
  /\ Len(Unsigned(chars)) >= 1
  /\ \A i \in 1..Len(Unsigned(chars)) : Unsigned(chars)[i] \in Digits

\* /^(-|\+)?(\d+|Infinity)$/.test(chars)
test(chars) ==
  \/ /\ Len(Unsigned(chars)) >= 1
     /\ \A i \in 1..Len(Unsigned(chars)) : Unsigned(chars)[i] \in Digits
  \/ Unsigned(chars) = InfinityWord

RECURSIVE DecimalValue(_)
DecimalValue(digits) ==
  IF Len(digits) = 0 THEN 0
  ELSE 10 * DecimalValue(SubSeq(digits, 1, Len(digits) - 1))
         + DigitValue(digits[Len(digits)])

\* Number(chars) of characters that pass the test
Number(chars) ==
  LET sign == IF Len(chars) > 0 /\ chars[1] = "-" THEN 0 - 1 ELSE 1
  IN  IF Unsigned(chars) = InfinityWord THEN InfinityNumber(sign)
      ELSE IntegerNumber(sign * DecimalValue(Unsigned(chars)))

\* Number.isInteger(value)
NumberIsInteger(v) == v.t = "number" /\ v.v = "integer"

\* typeof value === 'string' || value instanceof String
IsString(v) == v.t = "string" \/ (v.t = "object" /\ v.v = "String")

Return(fn, v) == [fn |-> fn, returned |-> TRUE, result |-> v, message |-> ""]

Throw(fn, message) ==
  [fn |-> fn, returned |-> FALSE, result |-> Undefined, message |-> message]

NotInteger == "Value is not a valid integer or convertible to an integer."

NotPositive == "Value is not a positive integer."

ensureInteger(v) ==
  IF NumberIsInteger(v) THEN Return("ensureInteger", v)
  ELSE IF IsString(v) /\ test(v.s) THEN Return("ensureInteger", Number(v.s))
  ELSE Throw("ensureInteger", NotInteger)

\* validInteger < 0
IsNegative(v) == v.n < 0

ensurePositiveInteger(v) ==
  LET validInteger == ensureInteger(v)
  IN  IF ~validInteger.returned THEN Throw("ensurePositiveInteger", validInteger.message)
      ELSE IF IsNegative(validInteger.result)
        THEN Throw("ensurePositiveInteger", NotPositive)
      ELSE Return("ensurePositiveInteger", validInteger.result)

\* the characters the strings under validation are made of
ValidatorChars == {"0", "1", "7", "-", "+", "."}

RECURSIVE StringsUpTo(_)
StringsUpTo(n) ==
  IF n = 0 THEN {<<>>}
  ELSE StringsUpTo(n - 1)
         \cup {Append(chars, c) : chars \in StringsUpTo(n - 1), c \in ValidatorChars}

\* 'Infinity' with and without a sign, and near misses of it
InfinityStrings ==
  { InfinityWord, <<"+">> \o InfinityWord, <<"-">> \o InfinityWord,
    InfinityWord \o <<"1">>, <<"1">> \o InfinityWord,
    <<"i", "n", "f", "i", "n", "i", "t", "y">>, <<"I", "n", "f">> }

ValidatorStrings == StringsUpTo(MaxChars) \cup InfinityStrings

ValidatorInputs ==
  {IntegerNumber(n) : n \in (0 - MaxChars)..MaxChars}
    \cup {Fraction, NaN, InfinityNumber(1), InfinityNumber(0 - 1)}
    \cup {Null, Undefined, Bool(TRUE), Bool(FALSE), PlainObject}
    \cup {Str(chars) : chars \in ValidatorStrings}
    \cup {StringObject(chars) : chars \in ValidatorStrings}

NotCalled == [fn |-> "none", returned |-> FALSE, result |-> Undefined, message |-> ""]

InitValidator ==
  /\ argument \in ValidatorInputs
  /\ outcome = NotCalled
  /\ FiltersIdle
  /\ RestOfValidatorIdle

CallEnsureInteger ==
  /\ outcome' = ensureInteger(argument)
  /\ UNCHANGED <<argument, restOfValidator>>

CallEnsurePositiveInteger ==
  /\ outcome' = ensurePositiveInteger(argument)
  /\ UNCHANGED <<argument, restOfValidator>>

NextValidator == CallEnsureInteger \/ CallEnsurePositiveInteger

SpecValidator == InitValidator /\ [][NextValidator]_vars

-----------------------------------------------------------------------------
(* Properties of the integer validators *)

\* the input is an integer number, or a string of digits after an optional
\* sign
DenotesInteger(v) == NumberIsInteger(v) \/ (IsString(v) /\ testDigitsOnly(v.s))

\* C21: ensureInteger either throws or returns an integer: when it returns,
\* the value returned is an integer number, the input itself for an integer
\* input and the number a string of digits denotes for such a string; every
\* other input makes it throw.
C21_ReturnsIntegerOrThrows ==
  outcome.fn = "ensureInteger" =>
    /\ outcome.returned => NumberIsInteger(outcome.result)
    /\ outcome.returned <=> DenotesInteger(argument)
    /\ (outcome.returned /\ NumberIsInteger(argument)) => outcome.result = argument
    /\ (outcome.returned /\ IsString(argument)) => outcome.result = Number(argument.s)

-----------------------------------------------------------------------------
(* The CSV importer (components/table/TableCSVImporter.vue).  `importer`   *)
(* is the data of the component, `readers` the FileReaders that have not   *)
(* loaded yet, `reloads` the calls of reload() that wait at an await,      *)
(* `emitted` the events emitted so far, `clicks` what the user has done    *)
(* and `step` the handler that ran last.  The content of a file is known   *)
(* by the file's name.                                                     *)

BytesPerMB == 1024 * 1024

\* $config.INITIAL_TABLE_DATA_LIMIT is null
NoLimit == 0 - 1

\* the preview parse ends in an error
ParseError == 0 - 1

CsvFile(name, size, lines, preview) ==
  [name |-> name, size |-> size, lines |-> lines, preview |-> preview]

\* files of the size allowed, one of them exactly of the maximum; a file one
\* byte larger; a file of one line more than the limit of lines; a file
\* without rows; a file the parser rejects
CsvFiles ==
  { CsvFile("a.csv", 10, LineLimit, 3),
    CsvFile("b.csv", MaxImportMB * BytesPerMB, 2, 2),
    CsvFile("big.csv", MaxImportMB * BytesPerMB + 1, 2, 2),
    CsvFile("long.csv", 10, LineLimit + 1, 4),
    CsvFile("empty.csv", 0, 1, 0),
    CsvFile("broken.csv", 10, 2, ParseError) }

FileOf(content) == CHOOSE f \in CsvFiles : f.name = content

\* decodedData.split(/\r\n|\r|\n/).length
LineCount(decodedData) == FileOf(decodedData).lines

\* the rows of the result of $papa.parsePromise with preview: 6, or ParseError
PreviewRows(decodedData) == FileOf(decodedData).preview

NoRawData == "null"

NoParsedData == [rows |-> 0, of |-> "null"]

\* data() of the component and of the importer mixin, and $config
ImporterData(maxMB, limit) ==
  [ filename |-> "", rawData |-> NoRawData, parsedData |-> NoParsedData,
    state |-> "null", error |-> "", fileLoadingProgress |-> 0,
    config |-> [BASEROW_MAX_IMPORT_FILE_SIZE_MB |-> maxMB,
                INITIAL_TABLE_DATA_LIMIT |-> limit] ]

\* the importer mixin: the state and the error shown are cleared
resetImporterState(data) == [data EXCEPT !.state = "null", !.error = ""]

\* the importer mixin: the error is shown and nothing is in progress
handleImporterError(data, message) ==
  [resetImporterState(data) EXCEPT !.fileLoadingProgress = 0, !.error = message]

Event(name, content) == [name |-> name, of |-> content]

Step(op, arg, done) == [op |-> op, arg |-> arg, done |-> done]

Click(op, name) == [op |-> op, name |-> name, pending |-> readers # {}]

Reload(id, pc, decodedData) == [id |-> id, pc |-> pc, decodedData |-> decodedData]

\* reload() up to its first await
reloadStart(data) == [resetImporterState(data) EXCEPT !.state = "parsing"]

\* select(event) that reads a file of any size
selectWithoutLimit(files) ==
  IF Len(files) = 0
    THEN UNCHANGED <<importer, readers, emitted>>
    ELSE /\ importer' = [resetImporterState(importer) EXCEPT
                           !.fileLoadingProgress = 0,
                           !.parsedData = NoParsedData,
                           !.filename = files[1].name,
                           !.state = "loading"]
         /\ emitted' = Append(emitted, Event("changed", ""))
         /\ readers' = readers \cup {[id |-> Len(clicks) + 1, file |-> files[1]]}

\* select(event), event.target.files being `files`
select(files) ==
  IF Len(files) = 0
    THEN UNCHANGED <<importer, readers, emitted>>
    ELSE LET file    == files[1]
             maxSize == importer.config.BASEROW_MAX_IMPORT_FILE_SIZE_MB * BytesPerMB
         IN  IF file.size > maxSize
               THEN /\ importer' = handleImporterError(
                                     [importer EXCEPT !.filename = ""], "limitFileSize")
                    /\ UNCHANGED <<readers, emitted>>
               ELSE /\ importer' = [resetImporterState(importer) EXCEPT
                                      !.fileLoadingProgress = 0,
                                      !.parsedData = NoParsedData,
                                      !.filename = file.name,
                                      !.state = "loading"]
                    /\ emitted' = Append(emitted, Event("changed", ""))
                    /\ readers' = readers \cup {[id |-> Len(clicks) + 1, file |-> file]}

\* the user chooses a file, or closes the file dialog without one
Select ==
  /\ Len(clicks) < MaxClicks
  /\ \E files \in {<<>>} \cup {<<f>> : f \in CsvFiles} :
       /\ select(files)
       /\ step' = Step("select", files, TRUE)
       /\ clicks' = Append(clicks, Click("select", IF Len(files) = 0 THEN "" ELSE files[1].name))
  /\ UNCHANGED <<reloads, restOfImporter>>

\* the 'progress' event of a reader
Progress ==
  /\ \E r \in readers :
       /\ importer.fileLoadingProgress # 50
       /\ importer' = [importer EXCEPT !.fileLoadingProgress = 50]
       /\ step' = Step("progress", r, TRUE)
  /\ UNCHANGED <<readers, reloads, emitted, clicks, restOfImporter>>

\* the 'load' event of a reader: the data read is kept and reload() runs up
\* to its first await
Load ==
  /\ \E r \in readers :
       /\ readers' = readers \ {r}
       /\ importer' = reloadStart([importer EXCEPT !.rawData = r.file.name,
                                                   !.fileLoadingProgress = 100])
       /\ reloads' = reloads \cup {Reload(r.id, "decode", NoRawData)}
       /\ step' = Step("load", r, TRUE)
  /\ UNCHANGED <<emitted, clicks, restOfImporter>>

\* the user changes the separator or the encoding, which are enabled when a
\* file is shown and nothing is in progress: reload() runs up to its first
\* await
UserReload ==
  /\ Len(clicks) < MaxClicks
  /\ importer.filename # ""
  /\ importer.state = "null"
  /\ importer' = reloadStart(importer)
  /\ reloads' = reloads \cup {Reload(Len(clicks) + 1, "decode", NoRawData)}
  /\ step' = Step("input", importer.filename, TRUE)
  /\ clicks' = Append(clicks, Click("input", importer.filename))
  /\ UNCHANGED <<readers, emitted, restOfImporter>>

\* reload() after its first await, accepting any number of lines
reloadDecodeWithoutLimit(r) ==
  /\ reloads' = (reloads \ {r}) \cup {Reload(r.id, "parse", importer.rawData)}
  /\ step' = Step("reload", Reload(r.id, "parse", importer.rawData), FALSE)
  /\ UNCHANGED importer

\* reload() after its first await: the raw data is decoded and its lines are
\* counted
reloadDecode(r) ==
  LET decodedData == importer.rawData
      limit       == importer.config.INITIAL_TABLE_DATA_LIMIT
      count       == LineCount(decodedData)
  IN  IF limit # NoLimit /\ count > limit
        THEN /\ importer' = handleImporterError(importer, "limitError")
             /\ reloads' = reloads \ {r}
             /\ step' = Step("reload", Reload(r.id, "decode", decodedData), TRUE)
        ELSE /\ reloads' = (reloads \ {r}) \cup {Reload(r.id, "parse", decodedData)}
             /\ step' = Step("reload", Reload(r.id, "parse", decodedData), FALSE)
             /\ UNCHANGED importer

ReloadDecode ==
  /\ \E r \in reloads : r.pc = "decode" /\ reloadDecode(r)
  /\ UNCHANGED <<readers, emitted, clicks, restOfImporter>>

\* reload() after its second await: the preview parse starts
ReloadParse ==
  /\ \E r \in reloads :
       /\ r.pc = "parse"
       /\ reloads' = (reloads \ {r}) \cup {Reload(r.id, "preview", r.decodedData)}
       /\ step' = Step("reload", Reload(r.id, "preview", r.decodedData), FALSE)
  /\ UNCHANGED <<importer, readers, emitted, clicks, restOfImporter>>

\* the end of reload() that emits 'getData' whatever the preview parse gave
reloadPreviewAlways(r) ==
  /\ importer' = [importer EXCEPT
                    !.parsedData = [rows |-> PreviewRows(r.decodedData), of |-> r.decodedData],
                    !.state = "null"]
  /\ emitted' = emitted \o <<Event("data", r.decodedData), Event("getData", r.decodedData)>>

\* reload() after the preview parse: its result is kept, the preview and
\* 'getData' are emitted, or the error is shown
reloadPreview(r) ==
  LET rows == PreviewRows(r.decodedData)
  IN  IF rows = ParseError
        THEN /\ importer' = handleImporterError(importer, "parseError")
             /\ UNCHANGED emitted
      ELSE IF rows = 0
        THEN /\ importer' = handleImporterError(importer, "emptyCSV")
             /\ UNCHANGED emitted
      ELSE /\ importer' = [importer EXCEPT
                             !.parsedData = [rows |-> rows, of |-> r.decodedData],
                             !.state = "null"]
           /\ emitted' = emitted \o <<Event("data", r.decodedData),
                                      Event("getData", r.decodedData)>>

ReloadPreview ==
  /\ \E r \in reloads :
       /\ r.pc = "preview"
       /\ reloadPreview(r)
       /\ reloads' = reloads \ {r}
       /\ step' = Step("reload", r, TRUE)
  /\ UNCHANGED <<readers, clicks, restOfImporter>>

InitImporter ==
  /\ \E limit \in {NoLimit, LineLimit} : importer = ImporterData(MaxImportMB, limit)
  /\ readers = {}
  /\ reloads = {}
  /\ emitted = <<>>
  /\ step = Step("created", "", TRUE)
  /\ clicks = <<>>
  /\ FiltersIdle
  /\ RestOfImporterIdle

NextImporter ==
  \/ Select
  \/ Progress
  \/ Load
  \/ UserReload
  \/ ReloadDecode
  \/ ReloadParse
  \/ ReloadPreview

SpecImporter == InitImporter /\ [][NextImporter]_vars

-----------------------------------------------------------------------------
(* Properties of the CSV importer *)

\* the step just taken is select() of a file larger than the maximum
OversizeSelected(s, data) ==
  /\ s.op = "select"
  /\ Len(s.arg) > 0
  /\ s.arg[1].size > data.config.BASEROW_MAX_IMPORT_FILE_SIZE_MB * BytesPerMB

\* C22: select of a file larger than the configured maximum never loads it:
\* the filename is reset to '', an error is shown, no read is started, the
\* raw and the parsed data stay as they were, and nothing is emitted.
C22_OversizeNeverLoaded ==
  [][OversizeSelected(step', importer) =>
       /\ importer'.filename = ""
       /\ importer'.error # ""
       /\ readers' = readers
       /\ reloads' = reloads
       /\ importer'.rawData = importer.rawData
       /\ importer'.parsedData = importer.parsedData
       /\ emitted' = emitted]_vars

\* a file larger than the maximum has been refused after another file had
\* been read and parsed, whose data is still there
C22_Witness ==
  /\ OversizeSelected(step, importer)
  /\ importer.filename = ""
  /\ importer.error = "limitFileSize"
  /\ importer.rawData = "a.csv"
  /\ importer.parsedData.of = "a.csv"
  /\ readers = {}

\* the decoded data is within the limit of lines and its preview parse gives
\* at least one row
Importable(decodedData, data) ==
  /\ \/ data.config.INITIAL_TABLE_DATA_LIMIT = NoLimit
     \/ LineCount(decodedData) <= data.config.INITIAL_TABLE_DATA_LIMIT
  /\ PreviewRows(decodedData) # ParseError
  /\ PreviewRows(decodedData) >= 1

\* C23: a call of reload ends with 'getData' emitted and the state back to
\* null iff the decoded data has no more lines than the limit (or there is
\* no limit) and the preview parse succeeds with at least one row; in every
\* other outcome an error is shown, 'getData' is not emitted and the parsed
\* data stays as it was.
C23_ReloadOutcome ==
  [][(step'.op = "reload" /\ step'.done) =>
       LET decodedData == step'.arg.decodedData
           getData     == /\ Len(emitted') > Len(emitted)
                          /\ emitted'[Len(emitted')] = Event("getData", decodedData)
       IN  /\ (getData /\ importer'.state = "null") <=> Importable(decodedData, importer)
           /\ ~Importable(decodedData, importer) =>
                /\ importer'.error # ""
                /\ emitted' = emitted
                /\ importer'.parsedData = importer.parsedData]_vars

\* a reload has ended in the error of the limit of lines while the parsed
\* data of an earlier file is kept
C23_Witness ==
  /\ step.op = "reload"
  /\ step.done
  /\ step.arg.decodedData = "long.csv"
  /\ importer.error = "limitError"
  /\ importer.parsedData.of = "a.csv"

\* the user has chosen a file while an earlier one was still being read
SelectedWhileReading ==
  \E i \in 1..Len(clicks) : clicks[i].op = "select" /\ clicks[i].name # "" /\ clicks[i].pending

\* the events emitted since the last 'changed'
RECURSIVE SinceChanged(_)
SinceChanged(events) ==
  IF Len(events) = 0 \/ events[Len(events)].name = "changed" THEN <<>>
  ELSE Append(SinceChanged(SubSeq(events, 1, Len(events) - 1)), events[Len(events)])

\* C28: if a second file is selected while an earlier one is still being
\* read, then once every read and every reload has ended, the raw data and
\* the preview and 'getData' emitted belong to the file whose name is shown.
C28_LastSelectedFileWins ==
  (SelectedWhileReading /\ readers = {} /\ reloads = {} /\ importer.filename # "") =>
    /\ importer.rawData = importer.filename
    /\ \A i \in 1..Len(SinceChanged(emitted)) :
         SinceChanged(emitted)[i].of = importer.filename

-----------------------------------------------------------------------------
(* The context menu of a field (FieldContext.vue).  `fieldServer` is the   *)
(* set of the fields the server has, `fieldStore` the local store, and     *)
(* `deleteCalls` the calls of deleteField() made so far, each with the     *)
(* await it stands at.                                                     *)

FieldIds == {1, 2}

\* what field/deleteCall resolves with or rejects with
Deleted(related) == [ok |-> TRUE, response |-> TRUE, status |-> 200, related_fields |-> related]

HttpError(code) == [ok |-> FALSE, response |-> TRUE, status |-> code, related_fields |-> {}]

NetworkError == [ok |-> FALSE, response |-> FALSE, status |-> 0, related_fields |-> {}]

NoResponse == [ok |-> FALSE, response |-> FALSE, status |-> 0 - 1, related_fields |-> {}]

\* the answers of the server to the request to delete `field`
Responses(field) ==
  IF field \in fieldServer
    THEN {Deleted(fieldServer \ {field}), HttpError(500), HttpError(403), NetworkError}
    ELSE {HttpError(404), HttpError(500), NetworkError}

\* deleteField() up to its first await
DeleteCall(field) ==
  [ field |-> field, pc |-> "deleteCall", result |-> NoResponse, deleteEmitted |-> 0,
    notified |-> FALSE, deleteLoading |-> TRUE, hidden |-> FALSE ]

\* the end of deleteField(): this.hide() and deleteLoading = false
Finish(call) == [call EXCEPT !.pc = "done", !.hidden = TRUE, !.deleteLoading = FALSE]

\* the try block after field/deleteCall has resolved, up to the next await
deleteFieldTry(call, result) ==
  [call EXCEPT !.result = result, !.deleteEmitted = @ + 1, !.pc = "forceDelete"]

\* a catch block that takes every error for a field already deleted
deleteFieldCatchAny(call, error) ==
  [call EXCEPT !.result = error, !.deleteEmitted = @ + 1, !.pc = "forceDelete404"]

\* the catch block, up to its await or to the end of deleteField()
deleteFieldCatch(call, error) ==
  IF error.response /\ error.status = 404
    THEN [call EXCEPT !.result = error, !.deleteEmitted = @ + 1, !.pc = "forceDelete404"]
    ELSE Finish([call EXCEPT !.result = error, !.notified = TRUE])

\* the store actions field/forceDelete, field/forceUpdateFields and
\* toast/restore: they change the local store only
forceDelete(store, field) == [store EXCEPT !.items = @ \ {field}]

forceUpdateFields(store, fields) == [store EXCEPT !.updated = @ \cup (fields \cap store.items)]

toastRestore(store, field) == [store EXCEPT !.toasts = @ \cup {field}]

\* the user chooses 'delete' in the context menu of a field of the store
DeleteField ==
  /\ Len(deleteCalls) < MaxCalls
  /\ \E field \in fieldStore.items : deleteCalls' = Append(deleteCalls, DeleteCall(field))
  /\ UNCHANGED <<fieldServer, fieldStore, restOfFieldContext>>

\* field/deleteCall resolves or rejects
DeleteCallSettles ==
  /\ \E i \in 1..Len(deleteCalls) :
       /\ deleteCalls[i].pc = "deleteCall"
       /\ \E result \in Responses(deleteCalls[i].field) :
            IF result.ok
              THEN /\ fieldServer' = fieldServer \ {deleteCalls[i].field}
                   /\ deleteCalls' = [deleteCalls EXCEPT ![i] = deleteFieldTry(@, result)]
              ELSE /\ deleteCalls' = [deleteCalls EXCEPT ![i] = deleteFieldCatch(@, result)]
                   /\ UNCHANGED fieldServer
  /\ UNCHANGED <<fieldStore, restOfFieldContext>>

\* field/forceDelete resolves, in the try block or in the catch block
ForceDelete ==
  /\ \E i \in 1..Len(deleteCalls) :
       /\ deleteCalls[i].pc \in {"forceDelete", "forceDelete404"}
       /\ fieldStore' = forceDelete(fieldStore, deleteCalls[i].field)
       /\ deleteCalls' = [deleteCalls EXCEPT ![i] =
                            IF @.pc = "forceDelete"
                              THEN [@ EXCEPT !.pc = "forceUpdateFields"]
                              ELSE Finish(@)]
  /\ UNCHANGED <<fieldServer, restOfFieldContext>>

\* field/forceUpdateFields resolves
ForceUpdateFields ==
  /\ \E i \in 1..Len(deleteCalls) :
       /\ deleteCalls[i].pc = "forceUpdateFields"
       /\ fieldStore' = forceUpdateFields(fieldStore, deleteCalls[i].result.related_fields)
       /\ deleteCalls' = [deleteCalls EXCEPT ![i].pc = "toastRestore"]
  /\ UNCHANGED <<fieldServer, restOfFieldContext>>

\* toast/restore resolves and deleteField() ends
ToastRestore ==
  /\ \E i \in 1..Len(deleteCalls) :
       /\ deleteCalls[i].pc = "toastRestore"
       /\ fieldStore' = toastRestore(fieldStore, deleteCalls[i].field)
       /\ deleteCalls' = [deleteCalls EXCEPT ![i] = Finish(@)]
  /\ UNCHANGED <<fieldServer, restOfFieldContext>>

\* another user deletes a field, which the local store has not heard of
DeletedElsewhere ==
  /\ \E field \in fieldServer : fieldServer' = fieldServer \ {field}
  /\ UNCHANGED <<fieldStore, deleteCalls, restOfFieldContext>>

InitFieldContext ==
  /\ fieldServer = FieldIds
  /\ fieldStore = [items |-> FieldIds, updated |-> {}, toasts |-> {}]
  /\ deleteCalls = <<>>
  /\ FiltersIdle
  /\ RestOfFieldContextIdle

NextFieldContext ==
  \/ DeleteField
  \/ DeleteCallSettles
  \/ ForceDelete
  \/ ForceUpdateFields
  \/ ToastRestore
  \/ DeletedElsewhere

SpecFieldContext == InitFieldContext /\ [][NextFieldContext]_vars

-----------------------------------------------------------------------------
(* Properties of the context menu of a field *)

\* the call ends in this step
Ends(before, after) == before.pc # "done" /\ after.pc = "done"

-----------------------------------------------------------------------------
(* The element types of the application builder (elementTypes.js) and the  *)
(* registry they are registered in (plugin.js).  `registry` is the set of  *)
(* the element types registered so far, `asked` the container type whose   *)
(* childElementTypes were last read, with what the getters returned.       *)

\* an instance of a class of element types, with the classes it extends
ElementTypeInstance(type, class, parents) ==
  [type |-> type, classes |-> {class} \cup parents \cup {"ElementType"}]

FormElementTypeClasses == {"FormElementType"}

ContainerElementTypeClasses == {"ContainerElementType"}

ColumnElementType ==
  ElementTypeInstance("column", "ColumnElementType", ContainerElementTypeClasses)

InputTextElementType ==
  ElementTypeInstance("input_text", "InputTextElementType", FormElementTypeClasses)

HeadingElementType == ElementTypeInstance("heading", "HeadingElementType", {})

ParagraphElementType == ElementTypeInstance("paragraph", "ParagraphElementType", {})

LinkElementType == ElementTypeInstance("link", "LinkElementType", {})

ImageElementType == ElementTypeInstance("image", "ImageElementType", {})

ButtonElementType == ElementTypeInstance("button", "ButtonElementType", {})

TableElementType == ElementTypeInstance("table", "TableElementType", {})

DropdownElementType ==
  ElementTypeInstance("dropdown", "DropdownElementType", FormElementTypeClasses)

FormContainerElementType ==
  ElementTypeInstance("form_container", "FormContainerElementType",
                      ContainerElementTypeClasses)

CheckboxElementType ==
  ElementTypeInstance("checkbox", "CheckboxElementType", FormElementTypeClasses)

\* the element types plugin.js registers
PluginElementTypes ==
  { HeadingElementType, ParagraphElementType, LinkElementType, ImageElementType,
    InputTextElementType, ColumnElementType, ButtonElementType, TableElementType,
    FormContainerElementType, DropdownElementType, CheckboxElementType }

\* elementType instanceof class
InstanceOf(elementType, class) == class \in elementType.classes

\* elementType.isFormElement, a field of the class FormElementType
isFormElement(elementType) == InstanceOf(elementType, "FormElementType")

\* Object.values(this.app.$registry.getAll('element'))
elementTypesAll(registered) == registered

\* a getter by which no container forbids anything
childElementTypesForbiddenNone(container, registered) == {}

\* the getter childElementTypesForbidden of the class of `container`
childElementTypesForbidden(container, registered) ==
  IF InstanceOf(container, "ColumnElementType")
    THEN {elementType \in elementTypesAll(registered) :
            InstanceOf(elementType, "ContainerElementType")}
  ELSE IF InstanceOf(container, "FormContainerElementType")
    THEN {elementType \in elementTypesAll(registered) : ~isFormElement(elementType)}
  ELSE {}

\* _.difference(array, values)
difference(array, values) == array \ values

childElementTypes(container, registered) ==
  difference(elementTypesAll(registered), childElementTypesForbidden(container, registered))

NotAsked ==
  [container |-> [type |-> "none", classes |-> {}], all |-> {}, forbidden |-> {},
   children |-> {}]

\* app.$registry.register('element', elementType)
Register ==
  /\ \E elementType \in PluginElementTypes \ registry :
       registry' = registry \cup {elementType}
  /\ UNCHANGED <<asked, restOfElementTypes>>

\* the child element types of a registered container are read
ReadChildElementTypes ==
  /\ \E container \in {e \in registry : InstanceOf(e, "ContainerElementType")} :
       asked' = [ container |-> container,
                  all       |-> elementTypesAll(registry),
                  forbidden |-> childElementTypesForbidden(container, registry),
                  children  |-> childElementTypes(container, registry) ]
  /\ UNCHANGED <<registry, restOfElementTypes>>

InitElementTypes ==
  /\ registry = {}
  /\ asked = NotAsked
  /\ FiltersIdle
  /\ RestOfElementTypesIdle

NextElementTypes == Register \/ ReadChildElementTypes

SpecElementTypes == InitElementTypes /\ [][NextElementTypes]_vars

-----------------------------------------------------------------------------
(* Properties of the element types *)

\* C25: the child element types of a column contain no container type; those
\* of a form container are exactly the registered types that are form
\* elements; those of every container are all the registered types but the
\* ones its childElementTypesForbidden returns.
C25_ContainerNesting ==
  asked # NotAsked =>
    /\ asked.container.type = "column" =>
         \A child \in asked.children : child.type \notin {"column", "form_container"}
    /\ asked.container.type = "form_container" =>
         asked.children = {e \in asked.all : e.type \in {"input_text", "dropdown", "checkbox"}}
    /\ asked.children \subseteq asked.all
    /\ asked.children \cap asked.forbidden = {}
    /\ asked.children \cup asked.forbidden = asked.all

\* with every element type of the plugin registered, the child element types
\* of the form container are the input, the dropdown and the checkbox
C25_Witness ==
  /\ registry = PluginElementTypes
  /\ asked.container = FormContainerElementType
  /\ asked.all = PluginElementTypes
  /\ asked.children = {InputTextElementType, DropdownElementType, CheckboxElementType}

-----------------------------------------------------------------------------
(* The path parameters of a link element                                   *)
(* (LinkElementType.arePathParametersInError).  `linkElement` is the       *)
(* element, `pages` the pages of the builder, `pathError` what the         *)
(* function returned for them.                                             *)

ParamNames == {"id", "slug"}

RECURSIVE NameListsUpTo(_)
NameListsUpTo(n) ==
  IF n = 0 THEN {<<>>}
  ELSE NameListsUpTo(n - 1)
         \cup {Append(names, name) : names \in NameListsUpTo(n - 1), name \in ParamNames}

\* an array of parameters of these names, and a list that is missing
ParamArray(names) ==
  [k |-> "array", items |-> [i \in 1..Len(names) |-> [name |-> names[i]]]]

MissingArray(k) == [k |-> k, items |-> <<>>]

ParamLists ==
  {ParamArray(names) : names \in NameListsUpTo(MaxParams)}
    \cup {MissingArray("undefined"), MissingArray("null")}

Page(id, path_params) == [id |-> IntegerNumber(id), path_params |-> path_params]

LinkElement(navigation_type, navigate_to_page_id, page_parameters) ==
  [ navigation_type |-> navigation_type, navigate_to_page_id |-> navigate_to_page_id,
    page_parameters |-> page_parameters ]

\* the ids of the two pages, of no page, no id, and the id of a page as a
\* string
PageIdValues ==
  {IntegerNumber(1), IntegerNumber(2), IntegerNumber(3), Null, Undefined, Str(<<"1">>)}

\* isNaN(value): whether Number(value) is NaN
isNaN(v) ==
  CASE v.t = "number" -> v.v = "NaN"
    [] v.t = "undefined" -> TRUE
    [] v.t = "boolean" -> FALSE
    [] v.t = "string" -> ~(v.s = <<>> \/ test(v.s))
    [] v.t = "object" -> ~(v.v = "null" \/ (v.v = "String" /\ (v.s = <<>> \/ test(v.s))))

NoPage == [id |-> Undefined, path_params |-> MissingArray("undefined")]

\* array.find(({ id }) => id === value): the first page of that id, or
\* undefined
RECURSIVE find(_, _)
find(array, v) ==
  IF Len(array) = 0 THEN NoPage
  ELSE IF Head(array).id = v /\ v # NaN THEN Head(array)
  ELSE find(Tail(array), v)

\* list || []
OrEmptyArray(list) == IF list.k = "array" THEN list.items ELSE <<>>

\* array.map(({ name }) => name)
mapName(array) == [i \in 1..Len(array) |-> array[i].name]

\* _.isEqual of two arrays of strings
isEqual(a, b) == Len(a) = Len(b) /\ \A i \in 1..Len(a) : a[i] = b[i]

\* the function, comparing the names whatever their order
arePathParametersInErrorUnordered(element, builder) ==
  IF element.navigation_type = "page" /\ ~isNaN(element.navigate_to_page_id)
    THEN LET destinationPage == find(builder.pages, element.navigate_to_page_id)
         IN  IF destinationPage # NoPage
               THEN LET a == mapName(OrEmptyArray(destinationPage.path_params))
                        b == mapName(OrEmptyArray(element.page_parameters))
                    IN  {a[i] : i \in 1..Len(a)} # {b[i] : i \in 1..Len(b)}
               ELSE FALSE
    ELSE FALSE

arePathParametersInError(element, builder) ==
  IF element.navigation_type = "page" /\ ~isNaN(element.navigate_to_page_id)
    THEN LET destinationPage == find(builder.pages, element.navigate_to_page_id)
         IN  IF destinationPage # NoPage
               THEN LET destinationPageParams == OrEmptyArray(destinationPage.path_params)
                        pageParams == OrEmptyArray(element.page_parameters)
                        destinationPageParamNames == mapName(destinationPageParams)
                        pageParamNames == mapName(pageParams)
                    IN  IF ~isEqual(destinationPageParamNames, pageParamNames)
                          THEN TRUE
                          ELSE FALSE
               ELSE FALSE
    ELSE FALSE

NotComputed == [called |-> FALSE, value |-> FALSE]

\* isInError({ element, builder })
IsInError ==
  /\ pathError' = [called |-> TRUE,
                   value  |-> arePathParametersInError(linkElement, [pages |-> pages])]
  /\ UNCHANGED <<linkElement, pages, restOfLink>>

\* a builder of one or two pages, and a link to one of them, to a page that
\* is not there, or to a custom URL
InitLink ==
  /\ \E first, second \in ParamLists :
       pages \in {<<Page(1, first), Page(2, second)>>, <<Page(2, second)>>, <<>>}
  /\ \E navigation_type \in {"page", "custom"}, id \in PageIdValues, params \in ParamLists :
       linkElement = LinkElement(navigation_type, id, params)
  /\ pathError = NotComputed
  /\ FiltersIdle
  /\ RestOfLinkIdle

NextLink == IsInError

SpecLink == InitLink /\ [][NextLink]_vars

-----------------------------------------------------------------------------
(* Properties of the path parameters of a link *)

\* the names of a list of parameters, in their order; none for a list that
\* is missing
NamesOf(list) ==
  IF list.k = "array" THEN [i \in 1..Len(list.items) |-> list.items[i].name] ELSE <<>>

\* C26: arePathParametersInError returns true iff the element navigates to a
\* page, the destination page is among the pages of the builder, and the
\* names of the element's page_parameters, in their order, differ from the
\* names of the page's path_params, in theirs, a missing list counting as
\* empty; it returns false otherwise.
C26_PathParametersInError ==
  pathError.called =>
    (pathError.value <=>
       /\ linkElement.navigation_type = "page"
       /\ \E i \in 1..Len(pages) :
            /\ pages[i].id = linkElement.navigate_to_page_id
            /\ NamesOf(pages[i].path_params) # NamesOf(linkElement.page_parameters))

\* the link gives the parameters of its destination page in another order,
\* and is in error
C26_Witness ==
  /\ pathError.called
  /\ pathError.value
  /\ linkElement.navigate_to_page_id = IntegerNumber(1)
  /\ Len(pages) = 2
  /\ NamesOf(pages[1].path_params) = <<"id", "slug">>
  /\ NamesOf(linkElement.page_parameters) = <<"slug", "id">>

-----------------------------------------------------------------------------
(* The data provider of the current record                                 *)
(* (CurrentRecordDataProviderType.getDataContent).  `recordContext` is the *)
(* applicationContext, `pageContents` the data sources of the page and     *)
(* their contents in the store, `dataContent` what the function returned.  *)

\* get indexKey()
indexKey == "__idx__"

\* {}
EmptyObject == [key \in {} |-> Undefined]

\* the rows a data source gives: a row of user data, a row whose user data
\* has a field '__idx__' of its own, a row without fields
RowValues ==
  { [key \in {"name"} |-> Str(<<"a">>)],
    [key \in {"name", indexKey} |-> IF key = indexKey THEN IntegerNumber(7) ELSE Str(<<"b">>)],
    [key \in {indexKey} |-> Str(<<"x">>)] }

RECURSIVE RowsUpTo(_)
RowsUpTo(n) ==
  IF n = 0 THEN {<<>>}
  ELSE RowsUpTo(n - 1) \cup {Append(rows, row) : rows \in RowsUpTo(n - 1), row \in RowValues}

\* applicationContext.element, which may be undefined
Element(data_source_id) == [defined |-> TRUE, data_source_id |-> data_source_id]

NoElement == [defined |-> FALSE, data_source_id |-> Undefined]

ApplicationContext(element, recordIndex) ==
  [page |-> "page", element |-> element, recordIndex |-> recordIndex]

\* value is falsy
Falsy(v) ==
  \/ v.t = "undefined"
  \/ v = Null
  \/ v = IntegerNumber(0)
  \/ v = NaN
  \/ v = Bool(FALSE)
  \/ v = Str(<<>>)

\* the getter dataSource/getPageDataSourceById of the store: the data source
\* of the page that has the id, or none
NoDataSource == [id |-> Undefined]

getPageDataSourceById(store, page, dataSourceId) ==
  IF \E dataSource \in store.dataSources : dataSource.id = dataSourceId
    THEN CHOOSE dataSource \in store.dataSources : dataSource.id = dataSourceId
    ELSE NoDataSource

\* the getter dataSourceContent/getDataSourceContents of the store, read at
\* the id of a data source, || []
getDataSourceContents(store, page, id) ==
  IF id \in DOMAIN store.contents THEN store.contents[id] ELSE <<>>

\* rows[recordIndex] || {}
RowAt(rows, recordIndex) ==
  IF NumberIsInteger(recordIndex) /\ recordIndex.n >= 0 /\ recordIndex.n < Len(rows)
    THEN rows[recordIndex.n + 1]
    ELSE EmptyObject

\* { ...first, ...second }
Spread(first, second) ==
  [key \in DOMAIN first \cup DOMAIN second |->
     IF key \in DOMAIN second THEN second[key] ELSE first[key]]

NullContent == [isNull |-> TRUE, row |-> EmptyObject]

RowContent(row) == [isNull |-> FALSE, row |-> row]

\* the function without its last assignment of the index
getDataContentSpreadOnly(store, applicationContext) ==
  LET dataSourceId == IF applicationContext.element.defined
                        THEN applicationContext.element.data_source_id
                        ELSE Undefined
      recordIndex  == IF applicationContext.recordIndex = Undefined
                        THEN IntegerNumber(0)
                        ELSE applicationContext.recordIndex
  IN  IF Falsy(dataSourceId) THEN NullContent
      ELSE LET dataSource == getPageDataSourceById(store, applicationContext.page, dataSourceId)
           IN  IF dataSource = NoDataSource THEN NullContent
               ELSE LET rows == getDataSourceContents(store, applicationContext.page, dataSource.id)
                    IN  RowContent(Spread([key \in {indexKey} |-> recordIndex],
                                          RowAt(rows, recordIndex)))

getDataContent(store, applicationContext) ==
  LET \* element: { data_source_id: dataSourceId } = {}, recordIndex = 0
      dataSourceId == IF applicationContext.element.defined
                        THEN applicationContext.element.data_source_id
                        ELSE Undefined
      recordIndex  == IF applicationContext.recordIndex = Undefined
                        THEN IntegerNumber(0)
                        ELSE applicationContext.recordIndex
  IN  IF Falsy(dataSourceId) THEN NullContent
      ELSE LET dataSource == getPageDataSourceById(store, applicationContext.page, dataSourceId)
           IN  IF dataSource = NoDataSource THEN NullContent
               ELSE LET rows == getDataSourceContents(store, applicationContext.page, dataSource.id)
                        row  == Spread([key \in {indexKey} |-> recordIndex],
                                       RowAt(rows, recordIndex))
                    IN  RowContent([row EXCEPT ![indexKey] = recordIndex])

ContentNotRead == [called |-> FALSE, content |-> NullContent]

GetDataContent ==
  /\ dataContent' = [called |-> TRUE, content |-> getDataContent(pageContents, recordContext)]
  /\ UNCHANGED <<recordContext, pageContents, restOfCurrentRecord>>

\* a page of two data sources, the first with rows in the store, the second
\* with no content yet; an element without data source, with one of the
\* page or with one that is not of the page; a record index that is not
\* given, of a row, past the rows, or null
InitCurrentRecord ==
  /\ \E rows \in RowsUpTo(MaxRows) :
       pageContents = [ dataSources |-> {[id |-> IntegerNumber(1)], [id |-> IntegerNumber(2)]},
                        contents    |-> [id \in {IntegerNumber(1)} |-> rows] ]
  /\ \E element \in {NoElement} \cup {Element(id) : id \in {Undefined, Null} \cup
                                                    {IntegerNumber(n) : n \in 0..3}},
        recordIndex \in {Undefined, Null} \cup {IntegerNumber(n) : n \in 0..MaxRows} :
       recordContext = ApplicationContext(element, recordIndex)
  /\ dataContent = ContentNotRead
  /\ FiltersIdle
  /\ RestOfCurrentRecordIdle

NextCurrentRecord == GetDataContent

SpecCurrentRecord == InitCurrentRecord /\ [][NextCurrentRecord]_vars

-----------------------------------------------------------------------------
(* Properties of the data provider of the current record *)

\* the element has a data source, which is one of the page
HasDataSource ==
  /\ recordContext.element.defined
  /\ recordContext.element.data_source_id \in {ds.id : ds \in pageContents.dataSources}

\* the index of the record, 0 when none is given
RecordIndex ==
  IF recordContext.recordIndex = Undefined THEN IntegerNumber(0) ELSE recordContext.recordIndex

\* the rows the store has for the data source of the element
StoredRows ==
  IF recordContext.element.data_source_id \in DOMAIN pageContents.contents
    THEN pageContents.contents[recordContext.element.data_source_id]
    ELSE <<>>

RowPresent ==
  /\ RecordIndex.t = "number"
  /\ RecordIndex.n + 1 \in 1..Len(StoredRows)

\* C27: getDataContent returns null when the element has no data_source_id
\* or the data source is not found on the page; otherwise it returns the row
\* at recordIndex (0 when not given, an empty object when there is no such
\* row) with the key '__idx__' equal to recordIndex, also when the stored
\* row has a field '__idx__' of its own.
C27_CurrentRecordContent ==
  dataContent.called =>
    LET content == dataContent.content
    IN  /\ content.isNull <=> ~HasDataSource
        /\ ~content.isNull =>
             /\ content.row[indexKey] = RecordIndex
             /\ IF RowPresent
                  THEN LET stored == StoredRows[RecordIndex.n + 1]
                       IN  /\ DOMAIN content.row = DOMAIN stored \cup {indexKey}
                           /\ \A key \in DOMAIN stored \ {indexKey} :
                                content.row[key] = stored[key]
                  ELSE DOMAIN content.row = {indexKey}

\* the content of the second row of the data source has been read; the row
\* has a field '__idx__' of its own, and the content has the index 1 there
C27_Witness ==
  /\ dataContent.called
  /\ ~dataContent.content.isNull
  /\ recordContext.recordIndex = IntegerNumber(1)
  /\ RowPresent
  /\ DOMAIN StoredRows[2] = {"name", indexKey}
  /\ StoredRows[2][indexKey] = IntegerNumber(7)
  /\ dataContent.content.row[indexKey] = IntegerNumber(1)
  /\ dataContent.content.row["name"] = Str(<<"b">>)

====
